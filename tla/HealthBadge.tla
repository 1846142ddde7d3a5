----------------------------- MODULE HealthBadge -----------------------------
(***************************************************************************)
(* The health badge from the table to the page: healthService              *)
(* (backend/service/api_service.go) counts the users in the background and *)
(* pings the database for each check, HealthCheck                          *)
(* (backend/handlers/api_handlers.go) answers 200 or 503, and checkHealth  *)
(* (frontend/index.html) is called by an interval that does not wait for   *)
(* the answers.                                                            *)
(*                                                                         *)
(* A count is named by the version of the table it is of, 0 for the zero   *)
(* that cachedTotal holds before the first one.  AnalyticsCaches has the   *)
(* connections that the count and the pings compete for.                   *)
(***************************************************************************)
EXTENDS Integers

CONSTANTS
    Checks,         \* calls of /api/health that may be in flight together
    MaxVersion,     \* bound on the changes of the table
    MaxTroubles     \* bound on outages, ends of the process and lost calls

ASSUME HealthAssumption == MaxVersion \in Nat \ {0} /\ MaxTroubles \in Nat

VARIABLES
    version,    \* content of ws_user
    dbUp,       \* the database answers
    troubles,   \* what has gone wrong so far
    life,       \* history: number of the server process, 0 while there is none
    lives,      \* history: processes so far
    counting,   \* the version that the count under way reads, or 0
    total,      \* healthService.cachedTotal
    check,      \* call -> where it is, and the answer it carries
    badge,      \* what the badge says
    shown,      \* history: the last answer with a total that was shown
    rushed      \* history: a check was sent while another was in flight

world == <<version, dbUp, troubles>>
server == <<life, lives, counting, total>>
page == <<badge, shown, rushed>>
vars == <<version, dbUp, troubles, life, lives, counting, total, check, badge, shown, rushed>>

Versions == 0 .. MaxVersion
Lives == 0 .. MaxTroubles + 1

Steps == {"none", "sent", "pinged", "ok", "failed"}
Answers == [at : Steps, total : Versions, life : Lives]
Answer(at, t, l) == [at |-> at, total |-> t, life |-> l]
NoAnswer(at) == Answer(at, 0, 0)

TypeOK ==
    /\ version \in 1 .. MaxVersion /\ dbUp \in BOOLEAN /\ troubles \in 0 .. MaxTroubles
    /\ lives \in 1 .. troubles + 1 /\ life \in {0, lives}
    /\ counting \in Versions /\ total \in Versions
    /\ life = 0 => lives <= troubles /\ counting = 0 /\ total = 0
    /\ check \in [Checks -> Answers]
    /\ badge \in [text : {"checking", "ready", "disconnected"}, total : Versions]
    /\ shown \in Answers
    /\ rushed \in BOOLEAN

Init ==
    /\ version = 1 /\ dbUp = TRUE /\ troubles = 0
    /\ life = 1 /\ lives = 1
    /\ counting = 0 /\ total = 0
    /\ check = [c \in Checks |-> NoAnswer("none")]
    /\ badge = [text |-> "checking", total |-> 0]
    /\ shown = NoAnswer("none")
    /\ rushed = FALSE

-----------------------------------------------------------------------------
(* The surroundings. *)

\* External: users register or go.
Change ==
    /\ version < MaxVersion
    /\ version' = version + 1
    /\ UNCHANGED <<dbUp, troubles, server, check, page>>

Trouble == troubles < MaxTroubles /\ troubles' = troubles + 1

\* External: the database goes down, and the count under way ends with an error.
DatabaseDown ==
    /\ dbUp /\ Trouble
    /\ dbUp' = FALSE
    /\ counting' = 0
    /\ UNCHANGED <<version, life, lives, total, check, page>>

DatabaseBack ==
    /\ ~dbUp
    /\ dbUp' = TRUE
    /\ UNCHANGED <<version, troubles, server, check, page>>

\* The process ends (see AnalyticsCaches), and the calls that it has not
\* answered fail.
Crash ==
    /\ life # 0 /\ Trouble
    /\ life' = 0 /\ counting' = 0 /\ total' = 0
    /\ check' = [c \in Checks |->
                    IF check[c].at \in {"sent", "pinged"} THEN NoAnswer("failed") ELSE check[c]]
    /\ UNCHANGED <<version, dbUp, lives, page>>

\* Docker starts it again; gorm.Open needs the database.
Restart ==
    /\ life = 0 /\ dbUp
    /\ lives' = lives + 1 /\ life' = lives'
    /\ UNCHANGED <<world, counting, total, check, page>>

-----------------------------------------------------------------------------
(* healthService. *)

\* The goroutine of NewHealthService counts at once and at each tick.
StartCount ==
    /\ life # 0 /\ dbUp /\ counting = 0
    /\ counting' = version
    /\ UNCHANGED <<world, life, lives, total, check, page>>

CountOk ==
    /\ counting # 0
    /\ total' = counting
    /\ counting' = 0
    /\ UNCHANGED <<world, life, lives, check, page>>

\* A mutation of CountFails: the error is not looked at.
CountFailsStored ==
    /\ counting # 0
    /\ total' = 0
    /\ counting' = 0
    /\ UNCHANGED <<world, life, lives, check, page>>

\* statement_timeout or a lost connection; the old total stays.
CountFails ==
    /\ counting # 0
    /\ counting' = 0
    /\ UNCHANGED <<world, life, lives, total, check, page>>

\* Check pings first; its error is the 503 of HealthCheck...
Ping(c) ==
    /\ check[c].at = "sent" /\ life # 0
    /\ check' = [check EXCEPT ![c] = NoAnswer(IF dbUp THEN "pinged" ELSE "failed")]
    /\ UNCHANGED <<world, server, page>>

\* ...and otherwise it answers "ready", with whatever total there is.
LoadTotal(c) ==
    /\ check[c].at = "pinged"
    /\ check' = [check EXCEPT ![c] = Answer("ok", total, life)]
    /\ UNCHANGED <<world, server, page>>

-----------------------------------------------------------------------------
(* The page. *)

InFlight == {c \in Checks : check[c].at # "none"}

\* A mutation of CheckHealth: it is called again by a timeout set at the end of
\* a call that went well.
CheckHealthAfterSuccess(c) ==
    /\ check[c].at = "none"
    /\ badge.text # "disconnected"
    /\ check' = [check EXCEPT ![c] = NoAnswer("sent")]
    /\ rushed' = (rushed \/ InFlight # {})
    /\ UNCHANGED <<world, server, badge, shown>>

\* checkHealth() at the start and setInterval(checkHealth, 30000) afterwards.
CheckHealth(c) ==
    /\ check[c].at = "none"
    /\ check' = [check EXCEPT ![c] = NoAnswer("sent")]
    /\ rushed' = (rushed \/ InFlight # {})
    /\ UNCHANGED <<world, server, badge, shown>>

Show(c, b) ==
    /\ badge' = b
    /\ check' = [check EXCEPT ![c] = NoAnswer("none")]
    /\ UNCHANGED <<server, rushed>>

ShowReady(c) ==
    /\ check[c].at = "ok"
    /\ Show(c, [text |-> "ready", total |-> check[c].total])
    /\ shown' = check[c]
    /\ UNCHANGED world

Disconnected == [text |-> "disconnected", total |-> 0]

\* apiFetch throws: a 503, a call that was cut off, or nobody to answer it.
ShowDisconnected(c) ==
    /\ check[c].at = "failed" \/ (check[c].at = "sent" /\ life = 0)
    /\ Show(c, Disconnected)
    /\ UNCHANGED <<world, shown>>

\* External: the network loses a call, which fetch reports as an error.
Lose(c) ==
    /\ check[c].at # "none" /\ Trouble
    /\ Show(c, Disconnected)
    /\ UNCHANGED <<version, dbUp, shown>>

Progress(c) == Ping(c) \/ LoadTotal(c) \/ ShowReady(c) \/ ShowDisconnected(c)

Next ==
    \/ Change \/ DatabaseDown \/ DatabaseBack \/ Crash \/ Restart
    \/ StartCount \/ CountOk \/ CountFails
    \/ \E c \in Checks : CheckHealth(c) \/ Progress(c) \/ Lose(c)

\* What the schedulers give: the interval and the ticker fire, calls are served
\* and shown, an outage ends, Docker restarts, and a count that is tried again
\* and again succeeds some time.
Fairness ==
    /\ WF_vars(DatabaseBack) /\ WF_vars(Restart)
    /\ WF_vars(StartCount) /\ WF_vars(CountOk \/ CountFails) /\ SF_vars(CountOk)
    /\ WF_vars(\E c \in Checks : CheckHealth(c))
    /\ \A c \in Checks : WF_vars(Progress(c))

Spec == Init /\ [][Next]_vars
FairSpec == Spec /\ Fairness

-----------------------------------------------------------------------------
\* Answer b may follow answer a: it is of the same process or of a later one,
\* and of a later count, unless a new process has not counted yet.
MayFollow(b, a) ==
    /\ b.life >= a.life
    /\ b.total >= a.total \/ (b.total = 0 /\ b.life > a.life)

\* While no two checks overlap, the totals on the badge are never taken back,
\* except to the zero of a new process: neither a count that fails nor a
\* database that goes away and comes back shows in the total.
TotalsGoForward ==
    [][~rushed /\ shown.at = "ok" /\ shown' # shown => MayFollow(shown', shown)]_vars

\* When nothing changes or goes wrong any more, the badge comes to say that all
\* is well, with the right total, and no late answer of an earlier check or of
\* an earlier process makes it say anything else for good.
BadgeRecovers == <>[](badge = [text |-> "ready", total |-> version])
=============================================================================
