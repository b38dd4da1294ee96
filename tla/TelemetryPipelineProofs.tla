---------------------- MODULE TelemetryPipelineProofs -----------------------
(***************************************************************************)
(* Proofs about TelemetryPipeline, for any finite sets of links and any    *)
(* caps: what the publishers, the service and the dashboard know of each   *)
(* other stays in step over overlapping polls, lost answers and restarts.  *)
(***************************************************************************)
EXTENDS TelemetryPipeline, FiniteSetTheorems, TLAPS

-----------------------------------------------------------------------------
(* P is list with x after it, cut to its newest limit elements.            *)
IsPushed(P, list, x, limit) ==
  /\ P \in Seq(Nat)
  /\ Len(P) = IF Len(list) < limit THEN Len(list) + 1 ELSE limit
  /\ P[Len(P)] = x
  /\ \A i \in 1..Len(P)-1 : P[i] = list[i + Len(list) + 1 - Len(P)]

(* A capped list with an element more, by index.                           *)
LEMMA PushedIndex ==
  ASSUME NEW list \in Seq(Nat), NEW x \in Nat,
         NEW limit \in Nat \ {0}, Len(list) <= limit
  PROVE  IsPushed(Pushed(list, x, limit), list, x, limit)
<1> DEFINE longer == Append(list, x)
           P == Pushed(list, x, limit)
<1>1. /\ longer \in Seq(Nat) /\ Len(longer) = Len(list) + 1
      /\ longer[Len(list) + 1] = x
      /\ \A i \in 1..Len(list) : longer[i] = list[i]
  OBVIOUS
<1>2. P = IF Len(longer) > limit THEN Tail(longer) ELSE longer
  BY DEF Pushed
<1> HIDE DEF longer, P
<1>3. CASE Len(list) < limit
  <2>1. P = longer
    BY <1>1, <1>2, <1>3
  <2>2. P \in Seq(Nat) /\ Len(P) = Len(list) + 1 /\ P[Len(P)] = x
    BY <1>1, <2>1
  <2>3. ASSUME NEW i \in 1..Len(P)-1 PROVE P[i] = list[i + Len(list) + 1 - Len(P)]
    <3>1. i \in 1..Len(list) /\ i + Len(list) + 1 - Len(P) = i
      BY <2>2
    <3> QED
      BY <1>1, <2>1, <3>1
  <2> QED
    BY <1>3, <2>2, <2>3 DEF P, IsPushed
<1>4. CASE Len(list) = limit
  <2>1. P = Tail(longer)
    BY <1>1, <1>2, <1>4
  <2>2. P \in Seq(Nat) /\ Len(P) = limit /\ \A i \in 1..limit : P[i] = longer[i + 1]
    BY <1>1, <1>4, <2>1
  <2> QED
    BY <1>1, <1>4, <2>2 DEF P, IsPushed
<1> QED
  BY <1>3, <1>4

(* The lengths n and m of a list before and after: index i of the new list *)
(* is its last or that of an old element.                                  *)
LEMMA PushedArithmetic ==
  ASSUME NEW n \in Nat, NEW m \in Nat, NEW limit \in Nat \ {0}, n <= limit,
         m = IF n < limit THEN n + 1 ELSE limit, NEW i \in 1..m, i # m
  PROVE  i \in 1..m-1 /\ i + n + 1 - m \in 1..n
  OBVIOUS

(* Index i of the last k of m elements.                                    *)
LEMMA TailArithmetic ==
  ASSUME NEW m \in Nat, NEW k \in Nat, k <= m, NEW i \in 1..k-1
  PROVE  m - k + i \in 1..m-1
  OBVIOUS

(* Index i of the new window, as an index of the old list and of the new.  *)
LEMMA OffsetArithmetic ==
  ASSUME NEW n \in Nat, NEW h \in Nat, NEW m \in Nat, NEW k \in Nat, NEW i \in Nat
  PROVE  n - h + (i + h + 1 - k) = (m - k + i) + n + 1 - m
  OBVIOUS

(* Taking a poll out of the sequence of polls: what remains.               *)
LEMMA RemoveAtIndex ==
  ASSUME NEW s \in Seq(Polls), NEW i \in 1..Len(s)
  PROVE  /\ RemoveAt(s, i) \in Seq(Polls)
         /\ Len(RemoveAt(s, i)) = Len(s) - 1
         /\ \A k \in 1..Len(s)-1 : \E j \in 1..Len(s) : RemoveAt(s, i)[k] = s[j]
<1> DEFINE front == SubSeq(s, 1, i-1)
           back  == SubSeq(s, i+1, Len(s))
<1>1. /\ front \in Seq(Polls) /\ Len(front) = i - 1
      /\ \A k \in 1..i-1 : front[k] = s[k]
  OBVIOUS
<1>2. /\ back \in Seq(Polls) /\ Len(back) = Len(s) - i
      /\ \A k \in 1..Len(s)-i : back[k] = s[i+k]
  OBVIOUS
<1> HIDE DEF front, back
<1>3. front \o back \in Seq(Polls) /\ Len(front \o back) = Len(s) - 1
  BY <1>1, <1>2
<1>4. ASSUME NEW k \in 1..Len(s)-1
      PROVE  \E j \in 1..Len(s) : (front \o back)[k] = s[j]
  <2>1. (front \o back)[k] = IF k <= Len(front) THEN front[k] ELSE back[k - Len(front)]
    BY <1>1, <1>2
  <2>2. CASE k <= i - 1
    BY <1>1, <2>1, <2>2
  <2>3. CASE k > i - 1
    <3>1. k - (i - 1) \in 1..Len(s)-i /\ i + (k - (i - 1)) \in 1..Len(s)
      BY <2>3
    <3>2. back[k - (i - 1)] = s[i + (k - (i - 1))]
      BY <1>2, <3>1
    <3> QED
      BY <1>1, <2>1, <2>3, <3>1, <3>2
  <2>4. k <= i - 1 \/ k > i - 1
    OBVIOUS
  <2> QED
    BY <2>2, <2>3, <2>4, Zenon
<1> QED
  BY <1>3, <1>4 DEF RemoveAt, front, back

(* A poll that is over is taken out of the polls.                          *)
LEMMA PollRemoved ==
  ASSUME polls \in Seq(Polls), NEW i \in 1..Len(polls), polls' = RemoveAt(polls, i)
  PROVE  /\ polls' \in Seq(Polls)
         /\ Len(polls') = Len(polls) - 1
         /\ \A k \in 1..Len(polls') : \E j \in 1..Len(polls) : polls'[k] = polls[j]
<1>1. /\ RemoveAt(polls, i) \in Seq(Polls)
      /\ Len(RemoveAt(polls, i)) = Len(polls) - 1
      /\ \A k \in 1..Len(polls)-1 : \E j \in 1..Len(polls) : RemoveAt(polls, i)[k] = polls[j]
  BY RemoveAtIndex
<1>2. polls' \in Seq(Polls) /\ Len(polls') = Len(polls) - 1
  BY <1>1
<1>3. ASSUME NEW k \in 1..Len(polls') PROVE \E j \in 1..Len(polls) : polls'[k] = polls[j]
  <2>1. k \in 1..Len(polls)-1
    BY <1>2
  <2> QED
    BY <1>1, <2>1, Zenon
<1> QED
  BY <1>2, <1>3

(* A finite set as a sequence has the set's elements and their number.     *)
LEMMA SetToSeqRange ==
  ASSUME NEW S, IsFiniteSet(S)
  PROVE  /\ SetToSeq(S) \in Seq(S)
         /\ Len(SetToSeq(S)) = Cardinality(S)
         /\ \A e \in S : \E i \in 1..Len(SetToSeq(S)) : SetToSeq(S)[i] = e
<1> DEFINE n == Cardinality(S)
           f == SetToSeq(S)
<1>1. n \in Nat /\ ExistsBijection(1..n, S)
  BY FS_CardinalityType
<1>2. PICK b \in [1..n -> S] : IsInjective(b) /\ \A e \in S : \E i \in 1..n : b[i] = e
  BY <1>1 DEF ExistsBijection, Bijection, Injection, Surjection
<1>3. f \in [1..n -> S] /\ IsInjective(f)
  BY <1>2 DEF SetToSeq
<1> HIDE DEF f
<1>4. IsFiniteSet(1..n) /\ Cardinality(1..n) = n
  BY <1>1, FS_Interval
<1>5. f \in Injection(1..n, S)
  BY <1>3 DEF Injection
<1>6. f \in Surjection(1..n, S)
  BY <1>4, <1>5, FS_Injection
<1>7. f \in Seq(S) /\ Len(f) = n
  BY <1>1, <1>3
<1>8. \A e \in S : \E i \in 1..n : f[i] = e
  BY <1>6 DEF Surjection
<1> QED
  BY <1>7, <1>8 DEF f

AlertOf(A, l) == [link |-> l, sample |-> A.data[l].sample, life |-> A.life]

(* An answer gives one alert for each of its anomalous links.              *)
LEMMA NewAlertsRange ==
  ASSUME NEW A \in Analyses
  PROVE  /\ NewAlerts(A) \in Seq(Alerts)
         /\ Len(NewAlerts(A)) <= MaxAlerts
         /\ \A l \in Links : A.data[l].anomaly =>
              \E i \in 1..Len(NewAlerts(A)) : NewAlerts(A)[i] = AlertOf(A, l)
<1> DEFINE K == {k \in Links : A.data[k].anomaly}
           T == {[link |-> l, sample |-> A.data[l].sample, life |-> A.life] : l \in K}
           g == [l \in K |-> AlertOf(A, l)]
<1>1. NewAlerts(A) = SetToSeq(T)
  BY DEF NewAlerts
<1>2. g \in Surjection(K, T)
  BY DEF Surjection, AlertOf
<1>3. /\ IsFiniteSet(Links) /\ K \in SUBSET Links
      /\ MaxAlerts \in Nat /\ Cardinality(Links) <= MaxAlerts
  BY PipelineAssumption
<1>4. T \subseteq Alerts
  BY DEF Analyses, Predictions, Alerts
<1>5. \A l \in Links : A.data[l].anomaly => AlertOf(A, l) \in T
  BY DEF AlertOf
<1> HIDE DEF K, T, g
<1>6. IsFiniteSet(K) /\ Cardinality(K) <= Cardinality(Links)
  BY <1>3, FS_Subset
<1>7. IsFiniteSet(T) /\ Cardinality(T) <= Cardinality(K)
  BY <1>2, <1>6, FS_Surjection
<1>8. Cardinality(T) <= MaxAlerts
  <2>1. Cardinality(T) \in Nat /\ Cardinality(K) \in Nat /\ Cardinality(Links) \in Nat
    BY <1>3, <1>6, <1>7, FS_CardinalityType
  <2> QED
    BY <1>3, <1>6, <1>7, <2>1
<1>9. /\ SetToSeq(T) \in Seq(T) /\ Len(SetToSeq(T)) = Cardinality(T)
      /\ \A e \in T : \E i \in 1..Len(SetToSeq(T)) : SetToSeq(T)[i] = e
  BY <1>7, SetToSeqRange
<1>10. SetToSeq(T) \in Seq(Alerts)
  BY <1>4, <1>9
<1> QED
  BY <1>1, <1>5, <1>8, <1>9, <1>10

(* The panel keeps all the new alerts, when the cap is not below their     *)
(* number.                                                                 *)
LEMMA KeepAlertsIndex ==
  ASSUME NEW new \in Seq(Alerts), NEW prev \in Seq(Alerts), Len(new) <= MaxAlerts
  PROVE  /\ KeepAlerts(new, prev) \in Seq(Alerts)
         /\ Len(KeepAlerts(new, prev)) <= MaxAlerts
         /\ \A i \in 1..Len(new) :
              i \in 1..Len(KeepAlerts(new, prev)) /\ KeepAlerts(new, prev)[i] = new[i]
<1> DEFINE all == new \o prev
           n == IF Len(all) < MaxAlerts THEN Len(all) ELSE MaxAlerts
<1>1. /\ all \in Seq(Alerts) /\ Len(all) = Len(new) + Len(prev)
      /\ \A i \in 1..Len(new) : all[i] = new[i]
  OBVIOUS
<1>2. KeepAlerts(new, prev) = SubSeq(all, 1, n)
  BY DEF KeepAlerts
<1>3. MaxAlerts \in Nat
  BY PipelineAssumption
<1> HIDE DEF all
<1>4. n \in Nat /\ n <= Len(all) /\ n <= MaxAlerts /\ Len(new) <= n
  BY <1>1, <1>3
<1> HIDE DEF n
<1>5. /\ SubSeq(all, 1, n) \in Seq(Alerts) /\ Len(SubSeq(all, 1, n)) = n
      /\ \A i \in 1..n : SubSeq(all, 1, n)[i] = all[i]
  BY <1>1, <1>4
<1> QED
  BY <1>1, <1>2, <1>4, <1>5

-----------------------------------------------------------------------------
(* The constants that are caps.                                            *)
LEMMA Caps ==
  /\ DbLimit \in Nat \ {0} /\ Window \in Nat \ {0} /\ Window <= DbLimit
  /\ MaxAlerts \in Nat
  BY PipelineAssumption

(* Nothing is known of any link, and no post is on its way.                *)
LEMMA InitialValues ==
  /\ Idle \in Posts /\ EmptyCache \in Predictions
  /\ Nothing \in Analyses /\ FailedPoll \in Polls
<1>1. (CHOOSE l \in Links : TRUE) \in Links
  BY PipelineAssumption
<1> QED
  BY <1>1 DEF Idle, Posts, EmptyCache, NoPrediction, Predictions, Nothing, Analyses,
              FailedPoll, Polls

(* The type invariant and the cap of the stored samples, step by step.     *)
LEMMA TypeStep ==
  ASSUME TypeOK, StreamOrder, [Next]_vars
  PROVE  TypeOK'
<1> USE DEF TypeOK
<1>1. ASSUME NEW p \in Publishers, Post(p) PROVE TypeOK'
  <2>1. count' \in [Publishers -> Nat]
    BY <1>1 DEF Post
  <2>2. post' \in [Publishers -> Posts]
    <3>1. CASE post' = post
      BY <3>1
    <3>2. CASE post' # post
      <4>1. PICK l \in LinksOf(p) :
              post' = [post EXCEPT ![p] =
                         [pc |-> "sent", link |-> l, sample |-> count[p] + 1, life |-> life]]
        BY <1>1, <3>2 DEF Post
      <4>2. l \in Links
        BY DEF LinksOf, Links
      <4>3. [pc |-> "sent", link |-> l, sample |-> count[p] + 1, life |-> life] \in Posts
        BY <4>2 DEF Posts
      <4> QED
        BY <4>1, <4>3
    <3> QED
      BY <3>1, <3>2
  <2> QED
    BY <1>1, <2>1, <2>2 DEF Post, service, dashboard
<1>2. ASSUME NEW p \in Publishers, PostSucceeds(p) PROVE TypeOK'
  <2>1. post' \in [Publishers -> Posts] /\ acked' \in Posts
    BY <1>2, InitialValues DEF PostSucceeds, Posts
  <2> QED
    BY <1>2, <2>1 DEF PostSucceeds, service, dashboard
<1>3. ASSUME NEW p \in Publishers, AnswerTooShort(p) \/ AnswerLost(p) PROVE TypeOK'
  <2>1. post' \in [Publishers -> Posts]
    BY <1>3, InitialValues DEF AnswerTooShort, AnswerLost
  <2> QED
    BY <1>3, <2>1 DEF AnswerTooShort, AnswerLost, service, dashboard
<1>4. ASSUME NEW p \in Publishers, Stream(p) PROVE TypeOK'
  <2> DEFINE l == post[p].link
             x == post[p].sample
  <2>1. l \in Links /\ x \in Nat
    BY DEF Posts
  <2>2. /\ db[l] \in Seq(Nat) /\ Len(db[l]) <= DbLimit
        /\ history[l] \in Seq(Nat) /\ Len(history[l]) <= Window
    BY <2>1, Caps DEF StreamOrder
  <2>3. Pushed(db[l], x, DbLimit) \in Seq(Nat) /\ Pushed(history[l], x, Window) \in Seq(Nat)
    BY <2>1, <2>2, Caps, PushedIndex DEF IsPushed
  <2>4. PICK anomaly \in BOOLEAN :
          cache' = [cache EXCEPT ![l] = [sample |-> x, anomaly |-> anomaly]]
    BY <1>4 DEF Stream, Verdicts
  <2>5. db' \in [Links -> Seq(Nat)] /\ history' \in [Links -> Seq(Nat)]
    BY <1>4, <2>1, <2>3 DEF Stream
  <2>6. cache' \in Predictions
    BY <2>1, <2>4 DEF Predictions
  <2>7. post' \in [Publishers -> Posts]
    BY <1>4 DEF Stream, Posts
  <2> QED
    BY <1>4, <2>5, <2>6, <2>7 DEF Stream, dashboard
<1>5. CASE ServiceCrash
  <2>1. post' \in [Publishers -> Posts]
    BY <1>5 DEF ServiceCrash, Posts
  <2>2. polls' \in Seq(Polls)
    BY <1>5, InitialValues DEF ServiceCrash
  <2>3. {db', history'} \subseteq [Links -> Seq(Nat)]
    BY <1>5 DEF ServiceCrash
  <2> QED
    BY <1>5, <2>1, <2>2, <2>3, InitialValues DEF ServiceCrash
<1>6. CASE ServiceStart
  BY <1>6 DEF ServiceStart, publishers, dashboard
<1>7. CASE PollBegins
  <2>1. polls' \in Seq(Polls)
    <3>1. [phase |-> "asked", answer |-> Nothing, shown |-> display] \in Polls
      BY InitialValues DEF Polls
    <3> QED
      BY <1>7, <3>1 DEF PollBegins
  <2> QED
    BY <1>7, <2>1 DEF PollBegins, publishers, service
<1>8. ASSUME NEW i \in 1..Len(polls), PollAnswered(i) PROVE TypeOK'
  <2>1. polls' \in Seq(Polls)
    <3>1. [phase |-> "answered", shown |-> Nothing,
           answer |-> [life |-> life, data |-> cache]] \in Polls
      BY InitialValues DEF Polls, Analyses
    <3> QED
      BY <1>8, <3>1 DEF PollAnswered
  <2> QED
    BY <1>8, <2>1 DEF PollAnswered, publishers, service
<1>9. ASSUME NEW i \in 1..Len(polls), PollApplied(i) PROVE TypeOK'
  <2>1. polls' \in Seq(Polls)
    BY <1>9, PollRemoved DEF PollApplied
  <2>2. polls[i].answer \in Analyses
    <3>1. polls[i] \in Polls
      OBVIOUS
    <3> QED
      BY <3>1 DEF Polls
  <2>3. alerts' \in Seq(Alerts) /\ Len(alerts') <= MaxAlerts
    BY <1>9, <2>2, NewAlertsRange, KeepAlertsIndex DEF PollApplied
  <2> QED
    BY <1>9, <2>1, <2>2, <2>3 DEF PollApplied, publishers, service
<1>10. ASSUME NEW i \in 1..Len(polls), PollFails(i) PROVE TypeOK'
  <2>1. polls' \in Seq(Polls)
    BY <1>10, PollRemoved DEF PollFails
  <2> QED
    BY <1>10, <2>1 DEF PollFails, publishers, service
<1>11. CASE UNCHANGED vars
  BY <1>11 DEF vars, publishers, service, dashboard
<1> QED
  BY <1>1, <1>2, <1>3, <1>4, <1>5, <1>6, <1>7, <1>8, <1>9, <1>10, <1>11
  DEF Next, Publisher, Answer, Dashboard

-----------------------------------------------------------------------------
(* What the publishers and the service know of each other.                 *)
ServiceInv == StreamOrder /\ PostsNewer /\ AckedAnalysed

(* One publisher's part of PostsNewer.                                     *)
PostNewer(p) ==
  /\ post[p].life <= life
  /\ post[p].pc # "idle" => post[p].link \in LinksOf(p) /\ post[p].sample = count[p]
  /\ post[p].pc = "answered" /\ up /\ post[p].life = life =>
       cache[post[p].link].sample >= post[p].sample
  /\ \A l \in LinksOf(p) :
       /\ cache[l].sample <= count[p]
       /\ \A i \in 1..Len(db[l]) :
            db[l][i] <= count[p] /\ (post[p].pc = "sent" => db[l][i] < count[p])

LEMMA PostsNewerParts == PostsNewer <=> \A p \in Publishers : PostNewer(p)
  BY DEF PostsNewer, PostNewer

(* The links are the publishers', each of one of them.                     *)
LEMMA LinkOwner ==
  /\ \A p \in Publishers : LinksOf(p) \subseteq Links
  /\ \A l \in Links : \E p \in Publishers : l \in LinksOf(p)
  /\ \A p, q \in Publishers : p # q => LinksOf(p) \intersect LinksOf(q) = {}
  BY PipelineAssumption DEF LinksOf, Links, Publishers

(* The fields of values of the state.                                      *)
LEMMA Fields ==
  ASSUME TypeOK
  PROVE  /\ \A p \in Publishers :
              /\ count[p] \in Nat /\ post[p] \in Posts
              /\ post[p].pc \in {"idle", "sent", "answered", "closed"}
              /\ post[p].link \in Links /\ post[p].sample \in Nat /\ post[p].life \in Nat
         /\ \A l \in Links :
              /\ db[l] \in Seq(Nat) /\ history[l] \in Seq(Nat)
              /\ cache[l].sample \in Nat /\ display.data[l].sample \in Nat
              /\ cache[l].anomaly \in BOOLEAN /\ display.data[l].anomaly \in BOOLEAN
         /\ life \in Nat /\ display.life \in Nat /\ up \in BOOLEAN
         /\ acked.link \in Links /\ acked.sample \in Nat
  BY DEF TypeOK, Posts, Predictions, Analyses

(* A step of the dashboard.                                                *)
LEMMA ServiceAlone ==
  ASSUME ServiceInv, UNCHANGED <<publishers, service, acked>>
  PROVE  ServiceInv'
  BY DEF ServiceInv, StreamOrder, PostsNewer, AckedAnalysed, publishers, service

(* A step of a publisher p that makes no sample: its post is over.         *)
LEMMA PostOver ==
  ASSUME TypeOK, PostsNewer, NEW p \in Publishers, post' = [post EXCEPT ![p] = Idle],
         UNCHANGED <<count, service>>
  PROVE  PostsNewer'
<1> SUFFICES ASSUME NEW q \in Publishers PROVE PostNewer(q)'
  BY DEF PostsNewer, PostNewer
<1>1. PostNewer(q)
  BY DEF PostsNewer, PostNewer
<1>2. post'[q] = IF q = p THEN Idle ELSE post[q]
  BY DEF TypeOK
<1>3. Idle.pc = "idle" /\ Idle.life = 0 /\ life \in Nat
  BY DEF Idle, TypeOK
<1> QED
  BY <1>1, <1>2, <1>3 DEF PostNewer, service

(* StreamOrder of one link.                                                *)
Ordered(stored, recent) ==
  /\ Len(stored) <= DbLimit
  /\ \A i, j \in 1..Len(stored) : i < j => stored[i] < stored[j]
  /\ Len(recent) = IF Len(stored) < Window THEN Len(stored) ELSE Window
  /\ \A i \in 1..Len(recent) : recent[i] = stored[Len(stored) - Len(recent) + i]

(* A newer sample in both lists of a link leaves them in order.            *)
LEMMA PushedOrdered ==
  ASSUME NEW d \in Seq(Nat), NEW h \in Seq(Nat), NEW x \in Nat,
         Ordered(d, h), \A i \in 1..Len(d) : d[i] < x
  PROVE  Ordered(Pushed(d, x, DbLimit), Pushed(h, x, Window))
<1> DEFINE D == Pushed(d, x, DbLimit)
           H == Pushed(h, x, Window)
<1>1. /\ Len(d) <= DbLimit
      /\ Len(h) = IF Len(d) < Window THEN Len(d) ELSE Window
  BY DEF Ordered
<1>2. /\ \A i, j \in 1..Len(d) : i < j => d[i] < d[j]
      /\ \A i \in 1..Len(h) : h[i] = d[Len(d) - Len(h) + i]
  BY DEF Ordered
<1>3. Len(d) \in Nat /\ Len(h) \in Nat /\ Len(h) <= Window
  BY <1>1, Caps
<1>4. IsPushed(D, d, x, DbLimit) /\ IsPushed(H, h, x, Window)
  BY <1>1, <1>3, Caps, PushedIndex
<1> HIDE DEF D, H
<1>5. /\ Len(D) = IF Len(d) < DbLimit THEN Len(d) + 1 ELSE DbLimit
      /\ Len(H) = IF Len(h) < Window THEN Len(h) + 1 ELSE Window
      /\ Len(D) \in Nat /\ Len(H) \in Nat
  BY <1>4 DEF IsPushed
<1>6. /\ D[Len(D)] = x /\ \A i \in 1..Len(D)-1 : D[i] = d[i + Len(d) + 1 - Len(D)]
      /\ H[Len(H)] = x /\ \A i \in 1..Len(H)-1 : H[i] = h[i + Len(h) + 1 - Len(H)]
  BY <1>4 DEF IsPushed
<1>7. /\ Len(D) <= DbLimit
      /\ Len(H) = IF Len(D) < Window THEN Len(D) ELSE Window
      /\ Len(D) <= Len(d) + 1 /\ Len(H) <= Len(h) + 1 /\ Len(H) <= Len(D)
      /\ Len(D) # 0 /\ Len(H) # 0
  BY <1>1, <1>3, <1>5, Caps
<1>8. ASSUME NEW i \in 1..Len(D), NEW j \in 1..Len(D), i < j PROVE D[i] < D[j]
  <2> DEFINE u == i + Len(d) + 1 - Len(D)
             v == j + Len(d) + 1 - Len(D)
  <2>1. i \in 1..Len(D)-1 /\ u \in 1..Len(d)
    <3>1. i # Len(D)
      BY <1>5, <1>8
    <3> QED
      BY <1>1, <1>3, <1>5, <3>1, Caps, PushedArithmetic
  <2>2. D[i] = d[u]
    BY <1>6, <2>1
  <2>3. CASE j = Len(D)
    BY <1>6, <2>1, <2>2, <2>3
  <2>4. CASE j # Len(D)
    <3>1. j \in 1..Len(D)-1 /\ v \in 1..Len(d)
      BY <1>1, <1>3, <1>5, <2>4, Caps, PushedArithmetic
    <3>3. u < v
      BY <1>3, <1>5, <1>8
    <3>2. D[j] = d[v]
      BY <1>6, <3>1
    <3> HIDE DEF u, v
    <3> QED
      BY <1>2, <2>1, <2>2, <3>1, <3>2, <3>3
  <2> QED
    BY <2>3, <2>4
<1>9. ASSUME NEW i \in 1..Len(H) PROVE H[i] = D[Len(D) - Len(H) + i]
  <2>1. CASE i = Len(H)
    <3>1. Len(D) - Len(H) + i = Len(D)
      BY <1>5, <2>1
    <3> QED
      BY <1>6, <2>1, <3>1
  <2>2. CASE i # Len(H)
    <3> DEFINE u == i + Len(h) + 1 - Len(H)
               v == Len(D) - Len(H) + i
    <3>1. i \in 1..Len(H)-1 /\ u \in 1..Len(h)
      BY <1>3, <1>5, <2>2, Caps, PushedArithmetic
    <3>2. v \in 1..Len(D)-1
      BY <1>5, <1>7, <3>1, TailArithmetic
    <3>3. Len(d) - Len(h) + u = v + Len(d) + 1 - Len(D)
      <4>1. /\ Len(d) \in Nat /\ Len(h) \in Nat /\ Len(D) \in Nat /\ Len(H) \in Nat
            /\ i \in Nat
        BY <1>3, <1>5
      <4> QED
        BY <4>1, OffsetArithmetic
    <3>4. H[i] = h[u]
      BY <1>6, <3>1
    <3> HIDE DEF u, v
    <3>5. D[v] = d[v + Len(d) + 1 - Len(D)]
      BY <1>6, <3>2
    <3>6. h[u] = d[Len(d) - Len(h) + u]
      BY <1>2, <3>1
    <3> QED
      BY <3>3, <3>4, <3>5, <3>6 DEF v
  <2> QED
    BY <2>1, <2>2
<1>10. /\ \A i, j \in 1..Len(D) : i < j => D[i] < D[j]
       /\ \A i \in 1..Len(H) : H[i] = D[Len(D) - Len(H) + i]
  BY <1>8, <1>9
<1> QED
  BY <1>7, <1>10 DEF Ordered, D, H

LEMMA ServiceStep ==
  ASSUME TypeOK, ServiceInv, [Next]_vars
  PROVE  ServiceInv'
<1> USE DEF ServiceInv
<1>0. /\ \A p \in Publishers : PostNewer(p)
      /\ PostsNewer' <=> \A p \in Publishers : PostNewer(p)'
  BY DEF PostsNewer, PostNewer
<1>1. ASSUME NEW p \in Publishers, Post(p) PROVE ServiceInv'
  <2>1. StreamOrder' /\ AckedAnalysed'
    BY <1>1 DEF Post, service, StreamOrder, AckedAnalysed
  <2>2. ASSUME NEW q \in Publishers PROVE PostNewer(q)'
    <3>1. PostNewer(q) /\ PostNewer(p)
      BY <1>0
    <3>2. CASE q # p
      <4>1. post'[q] = post[q] /\ count'[q] = count[q]
        BY <1>1, <3>2 DEF Post, TypeOK
      <4> QED
        BY <1>1, <3>1, <4>1 DEF Post, PostNewer, service
    <3>3. CASE q = p
      <4>1. count'[p] = count[p] + 1 /\ count[p] \in Nat /\ post[p].pc = "idle"
        BY <1>1 DEF Post, TypeOK
      <4>2. \A l \in LinksOf(p) :
              /\ cache[l].sample <= count'[p]
              /\ \A i \in 1..Len(db[l]) : db[l][i] <= count'[p] /\ db[l][i] < count'[p]
        <5>1. ASSUME NEW l \in LinksOf(p)
              PROVE  /\ cache[l].sample <= count'[p]
                     /\ \A i \in 1..Len(db[l]) : db[l][i] <= count'[p] /\ db[l][i] < count'[p]
          <6>1. l \in Links /\ cache[l].sample \in Nat /\ db[l] \in Seq(Nat)
            BY LinkOwner, Fields
          <6>2. \A i \in 1..Len(db[l]) : db[l][i] \in Nat
            BY <6>1
          <6> QED
            BY <3>1, <4>1, <6>1, <6>2 DEF PostNewer
        <5> QED
          BY <5>1
      <4>3. CASE post' = post
        BY <1>1, <3>1, <3>3, <4>1, <4>2, <4>3 DEF Post, PostNewer, service
      <4>4. CASE post' # post
        <5>1. PICK l \in LinksOf(p) :
                post' = [post EXCEPT ![p] =
                           [pc |-> "sent", link |-> l, sample |-> count[p] + 1, life |-> life]]
          BY <1>1, <4>4 DEF Post
        <5>2. post'[p] = [pc |-> "sent", link |-> l, sample |-> count[p] + 1, life |-> life]
          BY <5>1 DEF TypeOK
        <5>3. life \in Nat /\ life' = life /\ cache' = cache /\ db' = db
          BY <1>1 DEF Post, service, TypeOK
        <5> QED
          BY <3>3, <4>1, <4>2, <5>2, <5>3 DEF PostNewer
      <4> QED
        BY <4>3, <4>4
    <3> QED
      BY <3>2, <3>3
  <2> QED
    BY <1>0, <2>1, <2>2
<1>2. ASSUME NEW p \in Publishers, PostSucceeds(p) PROVE ServiceInv'
  <2>1. StreamOrder' /\ PostsNewer'
    BY <1>2, PostOver DEF PostSucceeds, service, StreamOrder
  <2>2. AckedAnalysed'
    <3>1. CASE acked' = acked
      BY <1>2, <3>1 DEF PostSucceeds, service, AckedAnalysed
    <3>2. CASE acked' # acked
      <4>1. /\ up /\ post[p].life = life /\ post[p].pc = "answered" /\ cache' = cache
            /\ acked' = [Idle EXCEPT !.link = post[p].link, !.sample = post[p].sample]
        BY <1>2, <3>2 DEF PostSucceeds, service
      <4>2. acked'.link = post[p].link /\ acked'.sample = post[p].sample
        BY <4>1 DEF Idle
      <4>3. cache[post[p].link].sample >= post[p].sample
        BY <1>0, <4>1 DEF PostNewer
      <4> QED
        BY <4>1, <4>2, <4>3 DEF AckedAnalysed
    <3> QED
      BY <3>1, <3>2
  <2> QED
    BY <2>1, <2>2
<1>3. ASSUME NEW p \in Publishers, AnswerTooShort(p) \/ AnswerLost(p) PROVE ServiceInv'
  BY <1>3, PostOver
  DEF AnswerTooShort, AnswerLost, service, StreamOrder, AckedAnalysed
<1>4. ASSUME NEW p \in Publishers, Stream(p) PROVE ServiceInv'
  <2> DEFINE l == post[p].link
             x == post[p].sample
  <2>1. /\ post[p].pc = "sent" /\ l \in LinksOf(p) /\ l \in Links /\ x \in Nat /\ x = count[p]
        /\ \A i \in 1..Len(db[l]) : db[l][i] < x
        /\ cache[l].sample <= x
    BY <1>0, <1>4, Fields DEF Stream, PostNewer
  <2>2. /\ db' = [db EXCEPT ![l] = Pushed(db[l], x, DbLimit)]
        /\ history' = [history EXCEPT ![l] = Pushed(history[l], x, Window)]
        /\ post' = [post EXCEPT ![p].pc = "answered"]
        /\ count' = count /\ life' = life /\ up' = up /\ acked' = acked
    BY <1>4 DEF Stream
  <2>3. PICK anomaly \in BOOLEAN :
          cache' = [cache EXCEPT ![l] = [sample |-> x, anomaly |-> anomaly]]
    BY <1>4 DEF Stream, Verdicts
  <2>4. \A k \in Links : cache'[k].sample = IF k = l THEN x ELSE cache[k].sample
    BY <2>1, <2>3 DEF TypeOK, Predictions
  <2>5. \A k \in Links :
          /\ db'[k] = IF k = l THEN Pushed(db[l], x, DbLimit) ELSE db[k]
          /\ history'[k] = IF k = l THEN Pushed(history[l], x, Window) ELSE history[k]
    BY <2>2 DEF TypeOK
  <2>6. \A q \in Publishers :
          /\ post'[q].pc = IF q = p THEN "answered" ELSE post[q].pc
          /\ post'[q].link = post[q].link /\ post'[q].sample = post[q].sample
          /\ post'[q].life = post[q].life
    BY <2>2 DEF TypeOK, Posts
  <2>7. StreamOrder'
    <3>1. \A k \in Links : Ordered(db[k], history[k])
      BY DEF StreamOrder, Ordered
    <3>2. db[l] \in Seq(Nat) /\ history[l] \in Seq(Nat)
      BY <2>1, Fields
    <3>3. Ordered(Pushed(db[l], x, DbLimit), Pushed(history[l], x, Window))
      BY <2>1, <3>1, <3>2, PushedOrdered
    <3>4. \A k \in Links : Ordered(db'[k], history'[k])
      BY <2>5, <3>1, <3>3
    <3> QED
      BY <3>4 DEF StreamOrder, Ordered
  <2>8. AckedAnalysed'
    <3>1. acked.link \in Links /\ acked.sample \in Nat /\ cache[acked.link].sample \in Nat
      BY Fields
    <3> QED
      BY <2>1, <2>2, <2>4, <3>1 DEF AckedAnalysed
  <2>9. ASSUME NEW q \in Publishers PROVE PostNewer(q)'
    <3>1. PostNewer(q) /\ LinksOf(q) \subseteq Links
      BY <1>0, LinkOwner
    <3>2. CASE q # p
      <4>1. l \notin LinksOf(q)
        BY <2>1, <3>2, LinkOwner
      <4>2. \A k \in LinksOf(q) : db'[k] = db[k] /\ cache'[k].sample = cache[k].sample
        BY <2>4, <2>5, <3>1, <4>1
      <4> QED
        BY <2>2, <2>6, <3>1, <3>2, <4>2 DEF PostNewer
    <3>3. CASE q = p
      <4>1. ASSUME NEW k \in LinksOf(p), NEW i \in 1..Len(db'[k]) PROVE db'[k][i] <= count[p]
        <5>1. CASE k # l
          BY <2>5, <3>1, <3>3, <4>1, <5>1 DEF PostNewer
        <5>2. CASE k = l
          <6> DEFINE P == Pushed(db[l], x, DbLimit)
          <6>1. db[l] \in Seq(Nat) /\ Len(db[l]) <= DbLimit
            BY <2>1, Fields DEF StreamOrder
          <6>2. IsPushed(P, db[l], x, DbLimit)
            BY <2>1, <6>1, Caps, PushedIndex
          <6>3. db'[k] = P
            BY <2>1, <2>5, <5>2
          <6> HIDE DEF P
          <6>4. CASE i = Len(P)
            BY <2>1, <6>2, <6>3, <6>4 DEF IsPushed
          <6>5. CASE i # Len(P)
            <7>1. /\ Len(P) = IF Len(db[l]) < DbLimit THEN Len(db[l]) + 1 ELSE DbLimit
                  /\ Len(P) \in Nat /\ Len(db[l]) \in Nat /\ i \in 1..Len(P)
              BY <4>1, <6>1, <6>2, <6>3 DEF IsPushed
            <7>2. i \in 1..Len(P)-1 /\ i + Len(db[l]) + 1 - Len(P) \in 1..Len(db[l])
              BY <6>1, <6>5, <7>1, Caps, PushedArithmetic
            <7>3. P[i] = db[l][i + Len(db[l]) + 1 - Len(P)]
              BY <6>2, <7>2 DEF IsPushed
            <7> DEFINE u == i + Len(db[l]) + 1 - Len(P)
            <7>5. u \in 1..Len(db[l]) /\ P[i] = db[l][u]
              BY <7>2, <7>3
            <7> HIDE DEF u
            <7>4. P[i] < x /\ P[i] \in Nat
              BY <2>1, <6>1, <7>5
            <7> QED
              BY <2>1, <6>3, <7>4
          <6> QED
            BY <6>4, <6>5
        <5> QED
          BY <5>1, <5>2
      <4>2. \A k \in LinksOf(p) : cache'[k].sample <= count[p]
        BY <2>1, <2>4, <3>1, <3>3 DEF PostNewer
      <4>3. cache'[post'[p].link].sample >= post'[p].sample
        BY <2>1, <2>4, <2>6
      <4> QED
        BY <2>1, <2>2, <2>6, <3>1, <3>3, <4>1, <4>2, <4>3 DEF PostNewer
    <3> QED
      BY <3>2, <3>3
  <2> QED
    BY <1>0, <2>7, <2>8, <2>9
<1>5. CASE ServiceCrash
  <2>1. StreamOrder'
    BY <1>5, Caps DEF ServiceCrash, StreamOrder
  <2>2. AckedAnalysed'
    <3>1. Idle \in Posts /\ Idle.sample = 0 /\ Idle.link \in Links
      BY InitialValues DEF Posts, Idle
    <3> QED
      BY <1>5, <3>1 DEF ServiceCrash, AckedAnalysed, EmptyCache, NoPrediction
  <2>3. ASSUME NEW q \in Publishers PROVE PostNewer(q)'
    <3>1. /\ post'[q] = IF post[q].pc = "sent" THEN [post[q] EXCEPT !.pc = "closed"] ELSE post[q]
          /\ count' = count /\ life' = life /\ ~up'
          /\ \A l \in Links : db'[l] = <<>> /\ cache'[l].sample = 0
      BY <1>5 DEF ServiceCrash, EmptyCache, NoPrediction
    <3>2. /\ post'[q].life = post[q].life /\ post'[q].link = post[q].link
          /\ post'[q].sample = post[q].sample
          /\ post'[q].pc # "idle" => post[q].pc # "idle"
      BY <3>1, Fields DEF Posts
    <3>3. LinksOf(q) \subseteq Links /\ count[q] \in Nat
      BY LinkOwner, Fields
    <3> QED
      BY <1>0, <3>1, <3>2, <3>3 DEF PostNewer
  <2> QED
    BY <1>0, <2>1, <2>2, <2>3
<1>6. CASE ServiceStart
  <2>1. StreamOrder' /\ AckedAnalysed'
    BY <1>6 DEF ServiceStart, StreamOrder, AckedAnalysed
  <2>2. ASSUME NEW q \in Publishers PROVE PostNewer(q)'
    <3>1. post[q].life \in Nat /\ life \in Nat /\ life' = life + 1
      BY <1>6, Fields DEF ServiceStart
    <3> QED
      BY <1>0, <1>6, <3>1 DEF ServiceStart, publishers, PostNewer
  <2> QED
    BY <1>0, <2>1, <2>2
<1>7. CASE Answer \/ Dashboard \/ UNCHANGED vars
  BY <1>7, ServiceAlone
  DEF Answer, Dashboard, PollBegins, PollAnswered, PollApplied, PollFails, vars, publishers,
      service, dashboard
<1> QED
  BY <1>1, <1>2, <1>3, <1>4, <1>5, <1>6, <1>7 DEF Next, Publisher

-----------------------------------------------------------------------------
(* In one life, the service's predictions are only replaced by later ones. *)
LEMMA ServiceAdvances ==
  ASSUME TypeOK, PostsNewer, [Next]_vars
  PROVE  /\ life' >= life
         /\ life' = life /\ up' =>
              up /\ \A l \in Links : cache[l].sample <= cache'[l].sample
<1>0. life \in Nat /\ \A l \in Links : cache[l].sample \in Nat
  BY Fields
<1>1. CASE UNCHANGED service
  BY <1>0, <1>1 DEF service
<1>2. ASSUME NEW p \in Publishers, Stream(p)
      PROVE  /\ life' = life /\ up' = up /\ up
             /\ \A l \in Links : cache[l].sample <= cache'[l].sample
  <2> DEFINE k == post[p].link
  <2>1. k \in LinksOf(p) /\ k \in Links /\ cache[k].sample <= post[p].sample
    BY <1>2, Fields DEF Stream, PostsNewer
  <2>2. PICK anomaly \in BOOLEAN :
          cache' = [cache EXCEPT ![k] = [sample |-> post[p].sample, anomaly |-> anomaly]]
    BY <1>2 DEF Stream, Verdicts
  <2>3. \A l \in Links : cache'[l].sample = IF l = k THEN post[p].sample ELSE cache[l].sample
    BY <2>1, <2>2 DEF TypeOK, Predictions
  <2> QED
    BY <1>0, <1>2, <2>1, <2>3 DEF Stream
<1>3. CASE ServiceCrash
  BY <1>0, <1>3 DEF ServiceCrash
<1>4. CASE ServiceStart
  BY <1>0, <1>4 DEF ServiceStart
<1>5. \/ UNCHANGED service
      \/ \E p \in Publishers : Stream(p)
      \/ ServiceCrash
      \/ ServiceStart
  BY DEF Next, Publisher, Answer, Dashboard, Post, PostSucceeds, AnswerTooShort, AnswerLost,
         PollBegins, PollAnswered, PollApplied, PollFails, vars
<1>6. CASE \E p \in Publishers : Stream(p)
  BY <1>0, <1>2, <1>6
<1> QED
  BY <1>1, <1>3, <1>4, <1>5, <1>6

(* The service stays as far as an analysis, and gets as far as its own.    *)
ReachedNext(A) ==
  /\ A.life <= life'
  /\ A.life = life' /\ up' => \A l \in Links : A.data[l].sample <= cache'[l].sample

LEMMA ReachedStays ==
  ASSUME TypeOK, TypeOK', PostsNewer, [Next]_vars
  PROVE  \A A \in Analyses : Reached(A) => ReachedNext(A)
<1> SUFFICES ASSUME NEW A \in Analyses, Reached(A) PROVE ReachedNext(A)
  OBVIOUS
<1>1. /\ A.life \in Nat /\ \A l \in Links : A.data[l].sample \in Nat
  BY DEF Analyses, Predictions
<1>2. /\ life \in Nat /\ life' \in Nat
      /\ \A l \in Links : cache[l].sample \in Nat /\ cache'[l].sample \in Nat
  BY DEF TypeOK, Predictions
<1> QED
  BY <1>1, <1>2, ServiceAdvances DEF Reached, ReachedNext

LEMMA ReachedOwn ==
  ASSUME TypeOK
  PROVE  Reached(Nothing) /\ Reached([life |-> life, data |-> cache])
  BY Fields DEF Reached, Nothing, EmptyCache, NoPrediction

(* The steps that touch the dashboard.                                     *)
LEMMA DashboardSteps ==
  ASSUME [Next]_vars
  PROVE  \/ UNCHANGED dashboard
         \/ ServiceCrash
         \/ PollBegins
         \/ \E i \in 1..Len(polls) : PollAnswered(i)
         \/ \E i \in 1..Len(polls) : PollApplied(i)
         \/ \E i \in 1..Len(polls) : PollFails(i)
<1>1. ASSUME NEW p \in Publishers, Publisher(p) \/ Stream(p) PROVE UNCHANGED dashboard
  BY <1>1 DEF Publisher, Post, PostSucceeds, AnswerTooShort, AnswerLost, Stream
<1>2. CASE ServiceStart \/ UNCHANGED vars
  BY <1>2 DEF ServiceStart, vars
<1> QED
  BY <1>1, <1>2 DEF Next, Answer, Dashboard

(* Each poll is one of before, failed, begun or answered.                  *)
LEMMA PollStep ==
  ASSUME TypeOK, [Next]_vars, NEW k \in 1..Len(polls')
  PROVE  \/ \E j \in 1..Len(polls) : polls'[k] = polls[j]
         \/ polls'[k] = FailedPoll
         \/ polls'[k] = [phase |-> "asked", answer |-> Nothing, shown |-> display]
         \/ polls'[k] = [phase |-> "answered", shown |-> Nothing,
                         answer |-> [life |-> life, data |-> cache]]
<1>0. polls \in Seq(Polls)
  BY DEF TypeOK
<1>1. CASE polls' = polls
  BY <1>0, <1>1
<1>2. CASE ServiceCrash
  BY <1>0, <1>2 DEF ServiceCrash
<1>3. CASE PollBegins
  BY <1>0, <1>3 DEF PollBegins
<1>4. ASSUME NEW i \in 1..Len(polls), PollAnswered(i)
      PROVE  \/ \E j \in 1..Len(polls) : polls'[k] = polls[j]
             \/ polls'[k] = [phase |-> "answered", shown |-> Nothing,
                             answer |-> [life |-> life, data |-> cache]]
  BY <1>0, <1>4 DEF PollAnswered
<1>5. ASSUME NEW i \in 1..Len(polls), PollApplied(i) \/ PollFails(i)
      PROVE  \E j \in 1..Len(polls) : polls'[k] = polls[j]
  <2>1. polls' = RemoveAt(polls, i)
    BY <1>5 DEF PollApplied, PollFails
  <2> QED
    BY <1>0, <2>1, PollRemoved, Zenon
<1>6. CASE UNCHANGED dashboard
  BY <1>1, <1>6 DEF dashboard
<1>7. CASE \E i \in 1..Len(polls) : PollAnswered(i)
  BY <1>4, <1>7
<1>8. CASE (\E i \in 1..Len(polls) : PollApplied(i)) \/ (\E i \in 1..Len(polls) : PollFails(i))
  BY <1>5, <1>8
<1> QED
  BY <1>2, <1>3, <1>6, <1>7, <1>8, DashboardSteps

(* The service is as far as whatever the dashboard holds.                  *)
LEMMA AnalysesStep ==
  ASSUME TypeOK, TypeOK', PostsNewer, AnalysesReached, [Next]_vars
  PROVE  AnalysesReached'
<1>0. /\ polls \in Seq(Polls) /\ display \in Analyses
      /\ \A j \in 1..Len(polls) : polls[j].answer \in Analyses /\ polls[j].shown \in Analyses
  <2>1. polls \in Seq(Polls) /\ \A j \in 1..Len(polls) : polls[j] \in Polls
    BY DEF TypeOK
  <2> QED
    BY <2>1 DEF TypeOK, Polls
<1>1. /\ ReachedNext(display)
      /\ \A j \in 1..Len(polls) : ReachedNext(polls[j].answer) /\ ReachedNext(polls[j].shown)
  BY <1>0, ReachedStays DEF AnalysesReached
<1>2. ReachedNext(Nothing) /\ ReachedNext([life |-> life, data |-> cache])
  <2>1. Nothing \in Analyses /\ [life |-> life, data |-> cache] \in Analyses
    BY InitialValues DEF TypeOK, Analyses
  <2> QED
    BY <2>1, ReachedOwn, ReachedStays
<1>3. ReachedNext(display')
  <2>1. CASE display' = display
    BY <1>1, <2>1
  <2>2. CASE display' # display
    <3>1. PICK i \in 1..Len(polls) : display' = polls[i].answer
      BY <2>2, DashboardSteps
      DEF ServiceCrash, PollBegins, PollAnswered, PollApplied, PollFails, dashboard
    <3> QED
      BY <1>1, <3>1
  <2> QED
    BY <2>1, <2>2
<1>4. ASSUME NEW k \in 1..Len(polls')
      PROVE  ReachedNext(polls'[k].answer) /\ ReachedNext(polls'[k].shown)
  <2>1. CASE \E j \in 1..Len(polls) : polls'[k] = polls[j]
    BY <1>1, <2>1
  <2>2. CASE polls'[k] = FailedPoll
    BY <1>2, <2>2 DEF FailedPoll
  <2>3. CASE polls'[k] = [phase |-> "asked", answer |-> Nothing, shown |-> display]
    BY <1>1, <1>2, <2>3
  <2>4. CASE polls'[k] = [phase |-> "answered", shown |-> Nothing,
                          answer |-> [life |-> life, data |-> cache]]
    BY <1>2, <2>4
  <2> QED
    BY <2>1, <2>2, <2>3, <2>4, PollStep
<1> QED
  BY <1>3, <1>4 DEF AnalysesReached, Reached, ReachedNext

(* Every anomalous link on the display keeps its alert.                    *)
LEMMA AlertStep ==
  ASSUME TypeOK, AlertForDisplayed, [Next]_vars
  PROVE  AlertForDisplayed'
<1>1. CASE UNCHANGED <<display, alerts>>
  BY <1>1 DEF AlertForDisplayed
<1>2. ASSUME NEW i \in 1..Len(polls), PollApplied(i) PROVE AlertForDisplayed'
  <2> DEFINE A == polls[i].answer
  <2>1. A \in Analyses
    <3>1. polls[i] \in Polls
      BY DEF TypeOK
    <3> QED
      BY <3>1 DEF Polls
  <2>2. display' = A /\ alerts' = KeepAlerts(NewAlerts(A), alerts)
    BY <1>2 DEF PollApplied
  <2> HIDE DEF A
  <2>3. /\ NewAlerts(A) \in Seq(Alerts) /\ Len(NewAlerts(A)) <= MaxAlerts
        /\ \A l \in Links : A.data[l].anomaly =>
             \E k \in 1..Len(NewAlerts(A)) : NewAlerts(A)[k] = AlertOf(A, l)
    BY <2>1, NewAlertsRange
  <2>4. \A k \in 1..Len(NewAlerts(A)) :
          k \in 1..Len(alerts') /\ alerts'[k] = NewAlerts(A)[k]
    BY <2>2, <2>3, KeepAlertsIndex DEF TypeOK
  <2> QED
    BY <2>2, <2>3, <2>4 DEF AlertForDisplayed, AlertOf
<1>3. CASE \E i \in 1..Len(polls) : PollApplied(i)
  BY <1>2, <1>3
<1> QED
  BY <1>1, <1>3, DashboardSteps DEF ServiceCrash, PollBegins, PollAnswered, PollFails, dashboard

-----------------------------------------------------------------------------
LEMMA IInvInit == Init => PipelineInv
<1> SUFFICES ASSUME Init PROVE PipelineInv
  OBVIOUS
<1>1. TypeOK
  BY InitialValues, Caps DEF Init, TypeOK
<1>2. StreamOrder
  BY Caps DEF Init, StreamOrder
<1>3. PostsNewer
  BY LinkOwner DEF Init, PostsNewer, Idle, EmptyCache, NoPrediction
<1>4. AckedAnalysed
  <2>1. Idle.link \in Links /\ Idle.sample = 0
    BY InitialValues DEF Posts, Idle
  <2> QED
    BY <2>1 DEF Init, AckedAnalysed, EmptyCache, NoPrediction
<1>5. AlertForDisplayed /\ AnalysesReached
  BY DEF Init, AlertForDisplayed, AnalysesReached, Reached, Nothing, EmptyCache, NoPrediction
<1> QED
  BY <1>1, <1>2, <1>3, <1>4, <1>5 DEF PipelineInv

LEMMA IInvStep == PipelineInv /\ [Next]_vars => PipelineInv'
<1> SUFFICES ASSUME PipelineInv, [Next]_vars PROVE PipelineInv'
  OBVIOUS
<1>1. TypeOK'
  BY TypeStep DEF PipelineInv
<1>2. StreamOrder' /\ PostsNewer' /\ AckedAnalysed'
  BY ServiceStep DEF PipelineInv, ServiceInv
<1>3. AnalysesReached'
  BY <1>1, AnalysesStep DEF PipelineInv
<1>4. AlertForDisplayed'
  BY AlertStep DEF PipelineInv
<1> QED
  BY <1>1, <1>2, <1>3, <1>4 DEF PipelineInv

(* Types and caps, the order of the samples, and what the parties know of  *)
(* each other hold in every reachable state: the facts the other theorems  *)
(* rest on.                                                                *)
THEOREM IInvariant == Spec => []PipelineInv
  BY IInvInit, IInvStep, PTL DEF Spec

(* stream_telemetry() and analyze() keep the samples of a link in the      *)
(* order they were taken, none twice, and the predictor's window is the    *)
(* newest part of the stored ones: for any caps with Window <= DbLimit.    *)
THEOREM StreamOrderHolds == Spec => []StreamOrder
<1>1. PipelineInv => StreamOrder
  BY DEF PipelineInv
<1> QED
  BY <1>1, IInvariant, PTL

(* post_sample() returned true: the service, as long as it lives, has that *)
(* sample's prediction or a later one's.                                   *)
THEOREM AckedAnalysedHolds == Spec => []AckedAnalysed
<1>1. PipelineInv => AckedAnalysed
  BY DEF PipelineInv
<1> QED
  BY <1>1, IInvariant, PTL

(* The slice of the alert list in fetchTelemetry() never drops the alert   *)
(* of a displayed anomaly, for any number of links up to the cap.          *)
THEOREM AlertForDisplayedHolds == Spec => []AlertForDisplayed
<1>1. PipelineInv => AlertForDisplayed
  BY DEF PipelineInv
<1> QED
  BY <1>1, IInvariant, PTL

(* However many polls overlap, each is answered with what is no older than *)
(* the display was when it began.                                          *)
THEOREM PollsFreshHolds == Spec => PollsFresh
<1>1. PipelineInv /\ [Next]_vars => [Len(polls') = Len(polls) =>
        \A i \in 1..Len(polls) :
          polls[i].phase = "asked" /\ polls'[i].phase = "answered" =>
            NoOlder(polls'[i].answer, polls[i].shown)]_vars
  <2> SUFFICES ASSUME PipelineInv, Next, Len(polls') = Len(polls), NEW k \in 1..Len(polls),
                      polls[k].phase = "asked", polls'[k].phase = "answered"
               PROVE  NoOlder(polls'[k].answer, polls[k].shown)
    OBVIOUS
  <2>0. polls \in Seq(Polls) /\ polls[k] \in Polls /\ polls[k].shown \in Analyses
    <3>1. polls \in Seq(Polls) /\ polls[k] \in Polls
      BY DEF PipelineInv, TypeOK
    <3> QED
      BY <3>1 DEF Polls
  <2>1. CASE \E i \in 1..Len(polls) : PollAnswered(i)
    <3>1. polls'[k].answer = [life |-> life, data |-> cache] /\ up
      BY <2>0, <2>1 DEF PollAnswered
    <3>2. Reached(polls[k].shown)
      BY DEF PipelineInv, AnalysesReached
    <3>3. /\ life \in Nat /\ polls[k].shown.life \in Nat
          /\ \A l \in Links : /\ cache[l].sample \in Nat
                              /\ polls[k].shown.data[l].sample \in Nat
      BY <2>0 DEF PipelineInv, TypeOK, Analyses, Predictions
    <3> QED
      BY <3>1, <3>2, <3>3 DEF Reached, NoOlder
  <2>2. CASE \E i \in 1..Len(polls) : PollApplied(i) \/ PollFails(i)
    <3>1. PICK i \in 1..Len(polls) : polls' = RemoveAt(polls, i)
      BY <2>2 DEF PollApplied, PollFails
    <3>2. Len(polls') = Len(polls) - 1 /\ Len(polls) \in Nat
      BY <2>0, <3>1, PollRemoved
    <3> QED
      BY <3>2
  <2>3. CASE PollBegins
    <3>1. Len(polls') = Len(polls) + 1 /\ Len(polls) \in Nat
      BY <2>0, <2>3 DEF PollBegins
    <3> QED
      BY <3>1
  <2>4. CASE ServiceCrash
    <3>1. polls'[k] = FailedPoll
      BY <2>0, <2>4 DEF ServiceCrash
    <3> QED
      BY <3>1 DEF FailedPoll
  <2>5. CASE polls' = polls
    BY <2>5
  <2> QED
    BY <2>1, <2>2, <2>3, <2>4, <2>5, DashboardSteps DEF dashboard
<1> QED
  BY <1>1, IInvariant, PTL DEF Spec, PollsFresh
=============================================================================
