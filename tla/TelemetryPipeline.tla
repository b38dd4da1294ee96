------------------------- MODULE TelemetryPipeline --------------------------
(***************************************************************************)
(* Telemetry from the core engine through the AI service to the dashboard: *)
(*   - the daemon's event loop and its demo thread post samples with the   *)
(*     blocking TelemetryHttpClient (src/system/telemetry_http_client.cpp, *)
(*     src/main/core_engine.cpp);                                          *)
(*   - the service (ai-service/main.py, models/predictor.py) stores and    *)
(*     analyses them, all in memory, one handler at a time; it may crash   *)
(*     and be started again;                                               *)
(*   - the dashboard (dashboard/src/App.jsx) polls the analysis each       *)
(*     second, whether or not its earlier polls were answered.             *)
(*                                                                         *)
(* A sample is the number its publisher gave it.  Whether the forecast of  *)
(* a sample is anomalous, a matter of floating-point tests, is left open.  *)
(***************************************************************************)
EXTENDS Integers, SequencesExt

CONSTANTS
  Daemon, Demo,   \* the two threads of the core engine that post
  DaemonLinks,    \* links of the daemon's events: client -> SecureHost
  DemoLinks,      \* links of the demo's samples
  DbLimit,        \* samples kept per link (100)
  Window,         \* latencies the predictor keeps per link (10)
  MinPoints,      \* latencies a forecast needs (3)
  MaxAlerts,      \* alerts the dashboard keeps (15)
  MaxPolls,       \* bound on the polls that overlap
  DaemonPosts,    \* bound on the daemon's samples
  DemoPosts,      \* bound on the demo's samples
  MaxRestarts     \* bound on the restarts of the service

Links == DaemonLinks \union DemoLinks
Publishers == {Daemon, Demo}

ASSUME PipelineAssumption ==
  /\ Daemon # Demo
  /\ DaemonLinks \intersect DemoLinks = {}
  /\ Links # {} /\ IsFiniteSet(Links)
  /\ {DbLimit, Window, MinPoints} \subseteq Nat \ {0}
  /\ MinPoints <= Window /\ Window <= DbLimit
  /\ MaxAlerts \in Nat /\ Cardinality(Links) <= MaxAlerts

VARIABLES
  \* The publishers.
  count,      \* publisher -> samples made
  post,       \* publisher -> its current post
  \* The service.
  up,         \* it runs
  life,       \* how often it was restarted
  db,         \* telemetry_db: link -> samples
  history,    \* latency_history: link -> the samples whose latencies it holds
  cache,      \* analysis_cache: link -> the latest prediction
  \* The dashboard.
  polls,      \* the calls of fetchTelemetry that have not finished, oldest first
  display,    \* analysisData, and which life of the service it is from
  alerts,     \* systemAlerts, newest first
  \* Observers.
  acked       \* the last sample whose post returned true in this life of the
              \* service, and its link

publishers == <<count, post>>
service    == <<up, life, db, history, cache>>
dashboard  == <<polls, display, alerts>>
vars       == <<publishers, service, dashboard, acked>>

\* The absence of a prediction for a link.
NoPrediction == [sample |-> 0, anomaly |-> FALSE]
EmptyCache == [l \in Links |-> NoPrediction]
Nothing == [life |-> 0, data |-> EmptyCache]

\* A poll whose connection was lost.
FailedPoll == [phase |-> "failed", answer |-> Nothing, shown |-> Nothing]

\* No post.
Idle == [pc |-> "idle", link |-> CHOOSE l \in Links : TRUE, sample |-> 0, life |-> 0]

Init ==
  /\ count = [p \in Publishers |-> 0]
  /\ post = [p \in Publishers |-> Idle]
  /\ up = TRUE
  /\ life = 0
  /\ db = [l \in Links |-> <<>>]
  /\ history = [l \in Links |-> <<>>]
  /\ cache = EmptyCache
  /\ polls = <<>>
  /\ display = Nothing
  /\ alerts = <<>>
  /\ acked = Idle

-----------------------------------------------------------------------------
(* The publishers: post_sample() and its two callers.                      *)

\* The daemon posts the event of a request it handled, with a link for each
\* client descriptor (client handler, core_engine.cpp:227); in which order the
\* demo goes round its links is left open.
LinksOf(p) == IF p = Daemon THEN DaemonLinks ELSE DemoLinks

MaxPosts(p) == IF p = Daemon THEN DaemonPosts ELSE DemoPosts

\* A sample is made and post_sample() called.  The service gets the request;
\* when it is down, getaddrinfo() or connect() fails and the sample is lost.
Post(p) ==
  /\ post[p].pc = "idle"
  /\ count[p] < MaxPosts(p)
  /\ count' = [count EXCEPT ![p] = @ + 1]
  /\ \/ ~up /\ post' = post
     \/ /\ up
        /\ \E l \in LinksOf(p) :
             post' = [post EXCEPT ![p] =
                        [pc |-> "sent", link |-> l, sample |-> count[p] + 1, life |-> life]]
  /\ UNCHANGED <<service, dashboard, acked>>

\* Mutated form of PostSucceeds: the answer is not waited for.
PostSucceedsWhenSent(p) ==
  /\ post[p].pc \in {"sent", "answered"}
  /\ post' = [post EXCEPT ![p] = Idle]
  /\ acked' = IF up /\ post[p].life = life
              THEN [Idle EXCEPT !.link = post[p].link, !.sample = post[p].sample] ELSE acked
  /\ UNCHANGED <<count, service, dashboard>>

\* recv() returns the status of a success: post_sample() returns true.
PostSucceeds(p) ==
  /\ post[p].pc = "answered"
  /\ post' = [post EXCEPT ![p] = Idle]
  /\ acked' = IF up /\ post[p].life = life
              THEN [Idle EXCEPT !.link = post[p].link, !.sample = post[p].sample] ELSE acked
  /\ UNCHANGED <<count, service, dashboard>>

\* Only the first segment of the answer is read: one that ends inside the
\* status line is taken for a failure, although the sample was analysed.
AnswerTooShort(p) ==
  /\ post[p].pc = "answered"
  /\ post' = [post EXCEPT ![p] = Idle]
  /\ UNCHANGED <<count, service, dashboard, acked>>

\* Mutated form of AnswerLost: the same sample is posted again.
AnswerLostRetries(p) ==
  /\ post[p].pc \in {"closed", "answered"}
  /\ post' = [post EXCEPT ![p].pc = IF up THEN "sent" ELSE "idle", ![p].life = life]
  /\ UNCHANGED <<count, service, dashboard, acked>>

\* Mutated form of AnswerLost: recv() goes on waiting.
AnswerLostWaits(p) ==
  /\ post[p].pc = "closed"
  /\ UNCHANGED vars

\* The connection was closed without an answer: recv() returns 0 or fails.
AnswerLost(p) ==
  /\ post[p].pc = "closed"
  /\ post' = [post EXCEPT ![p] = Idle]
  /\ UNCHANGED <<count, service, dashboard, acked>>

-----------------------------------------------------------------------------
(* The service.                                                            *)

\* A list with x appended, cut to the newest limit elements.
Pushed(list, x, limit) ==
  LET longer == Append(list, x)
  IN IF Len(longer) > limit THEN Tail(longer) ELSE longer

\* predictor.analyze(): too few latencies are never an anomaly.
Verdicts(latencies) == IF Len(latencies) < MinPoints THEN {FALSE} ELSE BOOLEAN

\* stream_telemetry(): the sample is stored, analysed and its prediction
\* cached before the answer; the handler does not yield in between.
Stream(p) ==
  LET l == post[p].link
      x == post[p].sample
      latencies == Pushed(history[l], x, Window) IN
  /\ up
  /\ post[p].pc = "sent"
  /\ db' = [db EXCEPT ![l] = Pushed(@, x, DbLimit)]
  /\ history' = [history EXCEPT ![l] = latencies]
  /\ \E anomaly \in Verdicts(latencies) :
       cache' = [cache EXCEPT ![l] = [sample |-> x, anomaly |-> anomaly]]
  /\ post' = [post EXCEPT ![p].pc = "answered"]
  /\ UNCHANGED <<count, up, life, dashboard, acked>>

\* The process ends: its memory is gone and its connections are closed.  An
\* answer on its way still arrives (one that gets lost has the outcome of
\* AnswerTooShort).
ServiceCrash ==
  /\ up
  /\ life < MaxRestarts
  /\ up' = FALSE
  /\ db' = [l \in Links |-> <<>>]
  /\ history' = [l \in Links |-> <<>>]
  /\ cache' = EmptyCache
  /\ post' = [p \in Publishers |->
                IF post[p].pc = "sent" THEN [post[p] EXCEPT !.pc = "closed"] ELSE post[p]]
  /\ polls' = [i \in 1..Len(polls) |-> IF polls[i].phase = "asked" THEN FailedPoll ELSE polls[i]]
  /\ acked' = Idle
  /\ UNCHANGED <<count, life, display, alerts>>

ServiceStart ==
  /\ ~up
  /\ up' = TRUE
  /\ life' = life + 1
  /\ UNCHANGED <<publishers, db, history, cache, dashboard, acked>>

-----------------------------------------------------------------------------
(* The dashboard: fetchTelemetry().                                        *)

\* Mutated form of PollBegins: only the first call, no interval.
PollBeginsOnce ==
  /\ display = Nothing
  /\ up
  /\ Len(polls) < MaxPolls
  /\ polls' = Append(polls, [phase |-> "asked", answer |-> Nothing, shown |-> display])
  /\ UNCHANGED <<publishers, service, display, alerts, acked>>

\* The interval fires.  A connection to a service that is down is refused,
\* which changes nothing.
PollBegins ==
  /\ up
  /\ Len(polls) < MaxPolls
  /\ polls' = Append(polls, [phase |-> "asked", answer |-> Nothing, shown |-> display])
  /\ UNCHANGED <<publishers, service, display, alerts, acked>>

\* Mutated form of PollAnswered: the cache is emptied when it is read.
PollAnsweredDrains(i) ==
  /\ up
  /\ polls[i].phase = "asked"
  /\ polls' = [polls EXCEPT ![i] = [phase |-> "answered", shown |-> Nothing,
                                   answer |-> [life |-> life, data |-> cache]]]
  /\ cache' = EmptyCache
  /\ UNCHANGED <<publishers, up, life, db, history, display, alerts, acked>>

\* get_latest_analysis(): the service answers with its cache.
PollAnswered(i) ==
  /\ up
  /\ polls[i].phase = "asked"
  /\ polls' = [polls EXCEPT ![i] = [phase |-> "answered", shown |-> Nothing,
                                   answer |-> [life |-> life, data |-> cache]]]
  /\ UNCHANGED <<publishers, service, display, alerts, acked>>

\* The alerts an answer gives rise to, in some order.
NewAlerts(answer) ==
  SetToSeq({[link |-> l, sample |-> answer.data[l].sample, life |-> answer.life] :
              l \in {k \in Links : answer.data[k].anomaly}})

\* Mutated form of KeepAlerts: the oldest alerts are kept.
KeepOldestAlerts(new, prev) ==
  LET all == prev \o new IN SubSeq(all, 1, IF Len(all) < MaxAlerts THEN Len(all) ELSE MaxAlerts)

\* [...newAlerts, ...prev].slice(0, 15)
KeepAlerts(new, prev) ==
  LET all == new \o prev IN SubSeq(all, 1, IF Len(all) < MaxAlerts THEN Len(all) ELSE MaxAlerts)

\* An answer arrives: whichever poll it belongs to, it is displayed.  The
\* service has no error answer to this request.
PollApplied(i) ==
  /\ polls[i].phase = "answered"
  /\ display' = polls[i].answer
  /\ alerts' = KeepAlerts(NewAlerts(polls[i].answer), alerts)
  /\ polls' = RemoveAt(polls, i)
  /\ UNCHANGED <<publishers, service, acked>>

\* fetch() rejects, its connection was lost: a warning, and the display stays.
PollFails(i) ==
  /\ polls[i].phase = "failed"
  /\ polls' = RemoveAt(polls, i)
  /\ UNCHANGED <<publishers, service, display, alerts, acked>>

-----------------------------------------------------------------------------
Publisher(p) ==
  \/ Post(p)
  \/ PostSucceeds(p) \/ AnswerTooShort(p) \/ AnswerLost(p)

Dashboard == PollBegins \/ \E i \in 1..Len(polls) : PollApplied(i) \/ PollFails(i)

Answer == \E i \in 1..Len(polls) : PollAnswered(i)

Next ==
  \/ \E p \in Publishers : Publisher(p) \/ Stream(p)
  \/ Answer \/ Dashboard
  \/ ServiceCrash \/ ServiceStart

Spec == Init /\ [][Next]_vars

\* The threads of the engine run, the interval of the dashboard keeps firing,
\* and a service that runs goes on handling requests.
FairSpec ==
  /\ Spec
  /\ WF_vars(\E p \in Publishers : Publisher(p))
  /\ WF_vars(\E p \in Publishers : Stream(p))
  /\ WF_vars(Answer)
  /\ WF_vars(Dashboard)

-----------------------------------------------------------------------------
Predictions == [Links -> [sample : Nat, anomaly : BOOLEAN]]
Analyses    == [life : Nat, data : Predictions]
Posts       == [pc : {"idle", "sent", "answered", "closed"}, link : Links, sample : Nat, life : Nat]
Polls       == [phase : {"asked", "answered", "failed"}, answer : Analyses, shown : Analyses]
Alerts      == [link : Links, sample : Nat, life : Nat]

TypeOK ==
  /\ count \in [Publishers -> Nat] /\ post \in [Publishers -> Posts]
  /\ up \in BOOLEAN /\ life \in Nat
  /\ {db, history} \subseteq [Links -> Seq(Nat)]
  /\ cache \in Predictions
  /\ polls \in Seq(Polls)
  /\ display \in Analyses
  /\ alerts \in Seq(Alerts) /\ Len(alerts) <= MaxAlerts
  /\ acked \in Posts

(* Per link, the service holds the samples in the order they were taken    *)
(* and none twice, although posts fail, answers get lost and the service   *)
(* restarts; and what the predictor looks at is the newest part of it.     *)
StreamOrder ==
  \A l \in Links :
    /\ Len(db[l]) <= DbLimit
    /\ \A i, j \in 1..Len(db[l]) : i < j => db[l][i] < db[l][j]
    /\ Len(history[l]) = IF Len(db[l]) < Window THEN Len(db[l]) ELSE Window
    /\ \A i \in 1..Len(history[l]) : history[l][i] = db[l][Len(db[l]) - Len(history[l]) + i]

(* A post that returned true is not lost: as long as the service was not   *)
(* restarted since, its link's prediction is of that sample or a later one.*)
AckedAnalysed == cache[acked.link].sample >= acked.sample

(* A is no older than B: it is of a later life of the service, or has for  *)
(* every link the same sample's prediction or a later one's.               *)
NoOlder(A, B) ==
  \/ A.life > B.life
  \/ A.life = B.life /\ \A l \in Links : A.data[l].sample >= B.data[l].sample

(* Although polls overlap and are answered in any order, no answer is      *)
(* older than what was displayed when its poll began: the display can only *)
(* fall back over what was applied in the meantime.                        *)
PollsFresh ==
  [][Len(polls') = Len(polls) =>
       \A i \in 1..Len(polls) :
         polls[i].phase = "asked" /\ polls'[i].phase = "answered" =>
           NoOlder(polls'[i].answer, polls[i].shown)]_vars

(* Every anomalous link on the display has its alert in the panel, however *)
(* many polls have repeated older alerts.                                  *)
AlertForDisplayed ==
  \A l \in Links :
    display.data[l].anomaly =>
      \E i \in 1..Len(alerts) :
        alerts[i] = [link |-> l, sample |-> display.data[l].sample, life |-> display.life]

(* Every post of the daemon returns, also when the service dies: its event *)
(* loop, which waits for it, goes on.                                      *)
PostReturns == post[Daemon].pc # "idle" ~> post[Daemon].pc = "idle"

(* Once the service stays up and the publishers are done, the dashboard    *)
(* ends up with exactly the service's predictions and keeps them.          *)
EventuallyCurrent ==
  <>[]up => <>[](display = [life |-> life, data |-> cache])

-----------------------------------------------------------------------------
(***************************************************************************)
(* The inductive invariant.                                                *)
(***************************************************************************)
(* What the service knows of a link was posted by the link's publisher, a  *)
(* sample on its way is newer, and one that was answered in this life of   *)
(* the service is in the cache.                                            *)
PostsNewer ==
  \A p \in Publishers :
    /\ post[p].life <= life
    /\ post[p].pc # "idle" => post[p].link \in LinksOf(p) /\ post[p].sample = count[p]
    /\ post[p].pc = "answered" /\ up /\ post[p].life = life =>
         cache[post[p].link].sample >= post[p].sample
    /\ \A l \in LinksOf(p) :
         /\ cache[l].sample <= count[p]
         /\ \A i \in 1..Len(db[l]) :
              db[l][i] <= count[p] /\ (post[p].pc = "sent" => db[l][i] < count[p])

(* The service is at least as far as the analysis A.                       *)
Reached(A) ==
  /\ A.life <= life
  /\ A.life = life /\ up => \A l \in Links : A.data[l].sample <= cache[l].sample

AnalysesReached ==
  /\ Reached(display)
  /\ \A i \in 1..Len(polls) : Reached(polls[i].answer) /\ Reached(polls[i].shown)

PipelineInv ==
  /\ TypeOK
  /\ StreamOrder
  /\ PostsNewer
  /\ AckedAnalysed
  /\ AlertForDisplayed
  /\ AnalysesReached
=============================================================================
