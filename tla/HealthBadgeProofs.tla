-------------------------- MODULE HealthBadgeProofs --------------------------
(***************************************************************************)
(* What HealthBadge guarantees for any number of checks in flight, of      *)
(* changes and of troubles.                                                *)
(***************************************************************************)
EXTENDS HealthBadge, TLAPS

LEMMA TypeCorrectAtStart == Init => TypeOK
<1> USE HealthAssumption DEF HealthAssumption
<1>1. 0 \in Versions /\ 0 \in Lives /\ 1 \in 1 .. MaxVersion
  BY DEF Versions, Lives
<1>2. NoAnswer("none") \in Answers
  BY <1>1 DEF NoAnswer, Answer, Answers, Steps
<1>3. 0 \in 0 .. MaxTroubles
  OBVIOUS
<1>4. Init => /\ lives \in 1 .. troubles + 1 /\ life # 0 /\ life \in {0, lives}
              /\ check \in [Checks -> Answers] /\ troubles \in 0 .. MaxTroubles
  BY <1>2, <1>3 DEF Init
<1>5. Init => badge \in [text : {"checking", "ready", "disconnected"}, total : Versions]
  BY <1>1 DEF Init
<1>6. Init => dbUp \in BOOLEAN /\ rushed \in BOOLEAN
  BY DEF Init
<1>7. Init => /\ version \in 1 .. MaxVersion /\ counting \in Versions /\ total \in Versions
              /\ shown \in Answers
  BY <1>1, <1>2 DEF Init
<1> QED
  BY <1>4, <1>5, <1>6, <1>7 DEF TypeOK

\* The health check keeps its state well-typed, and a process that has ended
\* leaves nothing in memory.
THEOREM TypeCorrect == Spec => []TypeOK
<1> USE HealthAssumption DEF HealthAssumption
<1>1. Init => TypeOK
  BY TypeCorrectAtStart
<1>2. TypeOK /\ [Next]_vars => TypeOK'
  <2> SUFFICES ASSUME TypeOK, [Next]_vars PROVE TypeOK'
    OBVIOUS
  <2>1. \A at \in Steps, t \in Versions, l \in Lives : Answer(at, t, l) \in Answers
    BY DEF Answer, Answers
  <2>2. 0 \in Versions /\ 0 \in Lives /\ version \in Versions /\ life \in Lives /\ total \in Versions
    BY DEF TypeOK, Versions, Lives
  <2>3. \A at \in Steps : NoAnswer(at) \in Answers
    BY <2>1, <2>2 DEF NoAnswer
  <2>4. CASE Change \/ DatabaseBack
    <3>1. version' \in 1 .. MaxVersion /\ troubles' \in 0 .. MaxTroubles
      BY <2>4 DEF Change, DatabaseBack, TypeOK
    <3>2. dbUp' \in BOOLEAN
      BY <2>4 DEF Change, DatabaseBack, TypeOK
    <3>3. UNCHANGED <<server, check, page, troubles>>
      BY <2>4 DEF Change, DatabaseBack
    <3> QED
      BY <3>1, <3>2, <3>3 DEF TypeOK, server, page
  <2>5. CASE StartCount \/ CountOk \/ CountFails
    <3>1. counting' \in Versions /\ total' \in Versions
      BY <2>5, <2>2 DEF StartCount, CountOk, CountFails, TypeOK
    <3>2. life # 0
      BY <2>5 DEF StartCount, CountOk, CountFails, TypeOK
    <3>3. UNCHANGED <<world, life, lives, check, page>>
      BY <2>5 DEF StartCount, CountOk, CountFails
    <3> QED
      BY <3>1, <3>2, <3>3 DEF TypeOK, world, page
  <2>6. CASE DatabaseDown
    <3>1. troubles' \in 0 .. MaxTroubles /\ lives' \in 1 .. troubles' + 1 /\ life' \in {0, lives'}
      BY <2>6 DEF DatabaseDown, Trouble, TypeOK
    <3>2. dbUp' \in BOOLEAN
      BY <2>6 DEF DatabaseDown
    <3>3. life' = 0 => lives' <= troubles' /\ counting' = 0 /\ total' = 0
      BY <2>6 DEF DatabaseDown, Trouble, TypeOK
    <3>4. counting' = 0 /\ UNCHANGED <<version, total, check, page>>
      BY <2>6 DEF DatabaseDown
    <3> QED
      BY <2>2, <3>1, <3>2, <3>3, <3>4 DEF TypeOK, page
  <2>7. CASE Crash
    <3>1. check' \in [Checks -> Answers]
      BY <2>7, <2>3 DEF Crash, TypeOK, Steps
    <3> QED
      BY <2>7, <2>2, <3>1 DEF Crash, Trouble, TypeOK, page
  <2>8. CASE Restart
    <3>1. lives \in 1 .. troubles + 1 /\ life = 0
      BY <2>8 DEF Restart, TypeOK
    <3> QED
      BY <2>8, <3>1 DEF Restart, TypeOK, world, page
  <2>9. ASSUME NEW c \in Checks, CheckHealth(c) \/ Ping(c) PROVE TypeOK'
    <3>1. check' \in [Checks -> Answers]
      BY <2>9, <2>3 DEF CheckHealth, Ping, TypeOK, Steps
    <3> QED
      BY <2>9, <3>1 DEF CheckHealth, Ping, TypeOK, world, server, page
  <2>10. ASSUME NEW c \in Checks, LoadTotal(c) PROVE TypeOK'
    <3>1. check' \in [Checks -> Answers]
      BY <2>10, <2>1, <2>2 DEF LoadTotal, TypeOK, Steps
    <3> QED
      BY <2>10, <3>1 DEF LoadTotal, TypeOK, world, server, page
  <2>11. ASSUME NEW c \in Checks, ShowReady(c) \/ ShowDisconnected(c) \/ Lose(c) PROVE TypeOK'
    <3>1. check' \in [Checks -> Answers]
      BY <2>11, <2>3 DEF ShowReady, ShowDisconnected, Lose, Show, TypeOK, Steps
    <3>2. check[c] \in Answers /\ check[c].total \in Versions
      BY DEF TypeOK, Answers
    <3>3. badge' \in [text : {"checking", "ready", "disconnected"}, total : Versions]
      BY <2>11, <2>2, <3>2 DEF ShowReady, ShowDisconnected, Lose, Show, Disconnected
    <3>4. shown' \in Answers
      BY <2>11, <3>2 DEF ShowReady, ShowDisconnected, Lose, TypeOK
    <3> QED
      BY <2>11, <3>1, <3>3, <3>4
      DEF ShowReady, ShowDisconnected, Lose, Trouble, Show, TypeOK, world, server
  <2>12. CASE UNCHANGED vars
    BY <2>12 DEF vars, TypeOK
  <2> QED
    BY <2>4, <2>5, <2>6, <2>7, <2>8, <2>9, <2>10, <2>11,
       <2>12 DEF Next, Progress
<1> QED
  BY <1>1, <1>2, PTL DEF Spec
-----------------------------------------------------------------------------
(***************************************************************************)
(* Totals.  The count under way is of a version at least as late as that   *)
(* of the total, and of every total answered so far; an answer given since *)
(* may follow it.                                                          *)
(***************************************************************************)

CountInv == total <= version /\ (counting # 0 => total <= counting /\ counting <= version)

\* What is so of an answer a while it travels to the page and after that: it
\* tells of a process and a version there have been, and what the server would
\* answer now, or will once the count under way has ended, may follow it.
Followed(a) ==
    /\ a.life <= lives /\ a.total <= version
    /\ counting # 0 => a.total <= counting
    /\ life # 0 => MayFollow(Answer("ok", total, life), a)

AnswerInv ==
    /\ shown.at = "ok" => Followed(shown)
    /\ \A c \in Checks :
          /\ check[c].at = "ok" => Followed(check[c])
          /\ check[c].at = "pinged" => life # 0

\* While no two checks overlap, the answer on its way may follow the one shown.
PatientInv ==
    ~rushed => /\ \A c \in InFlight, d \in InFlight : c = d
               /\ \A c \in Checks : check[c].at = "ok" /\ shown.at = "ok" => MayFollow(check[c], shown)

Inv == TypeOK /\ CountInv /\ AnswerInv /\ PatientInv

\* An answer that was followed still is, in a step of the server.
LEMMA StillFollowed ==
    ASSUME TypeOK, CountInv, NEW a \in Answers, Followed(a),
           Change \/ DatabaseDown \/ DatabaseBack \/ Crash \/ Restart
              \/ StartCount \/ CountOk \/ CountFails
    PROVE  Followed(a)'
<1>1. /\ version \in Nat /\ life \in Nat /\ lives \in Nat /\ counting \in Nat /\ total \in Nat
      /\ life \in {0, lives} /\ a.total \in Nat /\ a.life \in Nat
  BY HealthAssumption DEF TypeOK, Versions, Lives, Answers, HealthAssumption
<1>2. CASE Change
  BY <1>1, <1>2 DEF Change, Followed, MayFollow, Answer, server
<1>3. CASE DatabaseDown
  BY <1>1, <1>3 DEF DatabaseDown, Followed, MayFollow, Answer
<1>4. CASE DatabaseBack
  BY <1>1, <1>4 DEF DatabaseBack, Followed, MayFollow, Answer, server
<1>5. CASE Crash
  BY <1>1, <1>5 DEF Crash, Followed
<1>6. CASE Restart
  BY <1>1, <1>6 DEF Restart, Followed, MayFollow, Answer, TypeOK, world
<1>7. CASE StartCount
  BY <1>1, <1>7 DEF StartCount, Followed, MayFollow, Answer, world
<1>8. CASE CountOk
  BY <1>1, <1>8 DEF CountOk, Followed, MayFollow, Answer, CountInv, world
<1>9. CASE CountFails
  BY <1>1, <1>9 DEF CountFails, Followed, MayFollow, Answer, world
<1> QED
  BY <1>2, <1>3, <1>4, <1>5, <1>6, <1>7, <1>8, <1>9

\* A step of the server keeps the invariant: it gives no answer, and lets no
\* answer pass another.
LEMMA ServerKeepsInv ==
    ASSUME Inv, TypeOK',
           Change \/ DatabaseDown \/ DatabaseBack \/ Crash \/ Restart
              \/ StartCount \/ CountOk \/ CountFails
    PROVE  Inv'
<1>1. /\ version \in Nat /\ counting \in Nat /\ total \in Nat
  BY HealthAssumption DEF Inv, TypeOK, Versions, HealthAssumption
<1>2. CountInv'
  BY <1>1 DEF Inv, TypeOK, CountInv, Change, DatabaseDown, DatabaseBack, Crash, Restart,
              StartCount, CountOk, CountFails, server, world
<1>3. UNCHANGED <<shown, rushed>>
  BY DEF Change, DatabaseDown, DatabaseBack, Crash, Restart, StartCount, CountOk, CountFails, page
<1>4. ASSUME NEW c \in Checks
      PROVE  /\ check'[c].at = "ok" => check[c] = check'[c]
             /\ check'[c].at = "pinged" => check[c] = check'[c] /\ life' # 0
             /\ check'[c].at # "none" => check[c].at # "none"
  <2>1. check[c] \in Answers /\ (check[c].at = "pinged" => life # 0)
    BY DEF Inv, TypeOK, AnswerInv
  <2>2. CASE Crash
    <3>1. check'[c] = IF check[c].at \in {"sent", "pinged"} THEN NoAnswer("failed") ELSE check[c]
      BY <2>2 DEF Crash
    <3> QED
      BY <2>1, <3>1 DEF NoAnswer, Answer
  <2>3. CASE Restart
    BY <2>1, <2>3 DEF Restart, Inv, TypeOK
  <2>4. CASE Change \/ DatabaseDown \/ DatabaseBack \/ StartCount \/ CountOk \/ CountFails
    BY <2>1, <2>4 DEF Change, DatabaseDown, DatabaseBack, StartCount, CountOk, CountFails, server
  <2> QED
    BY <2>2, <2>3, <2>4
<1>5. AnswerInv'
  <2>1. ASSUME shown'.at = "ok" PROVE Followed(shown)'
    BY <1>3, <2>1, StillFollowed DEF Inv, AnswerInv, TypeOK
  <2>2. ASSUME NEW c \in Checks, check'[c].at = "ok" PROVE Followed(check[c])'
    <3>1. check[c] \in Answers /\ check[c] = check'[c] /\ Followed(check[c])
      BY <1>4, <2>2 DEF Inv, TypeOK, AnswerInv
    <3> QED
      BY <3>1, StillFollowed DEF Inv
  <2> QED
    BY <1>4, <2>1, <2>2 DEF AnswerInv
<1>6. PatientInv'
  BY <1>3, <1>4 DEF Inv, PatientInv, InFlight
<1> QED
  BY <1>2, <1>5, <1>6 DEF Inv

\* A check on its way keeps the invariant.
LEMMA CheckKeepsInv ==
    ASSUME Inv, TypeOK', NEW c \in Checks, CheckHealth(c) \/ Progress(c) \/ Lose(c)
    PROVE  Inv'
<1>1. /\ version \in Nat /\ life \in Nat /\ lives \in Nat /\ counting \in Nat /\ total \in Nat
      /\ life \in {0, lives} /\ check \in [Checks -> Answers] /\ shown \in Answers
  BY HealthAssumption DEF Inv, TypeOK, Versions, Lives, HealthAssumption
<1>2. UNCHANGED <<version, life, lives, counting, total>>
  BY DEF CheckHealth, Progress, Ping, LoadTotal, ShowReady, ShowDisconnected, Lose, Show, world, server
<1>3. /\ CountInv'
      /\ \A a : Followed(a) => Followed(a)'
  BY <1>2 DEF Inv, CountInv, Followed
<1>4. \A d \in Checks : d # c => check'[d] = check[d]
  BY <1>1 DEF CheckHealth, Progress, Ping, LoadTotal, ShowReady, ShowDisconnected, Lose, Show
<1>5. CASE CheckHealth(c)
  <2>1. check'[c].at = "sent" /\ shown' = shown
    BY <1>1, <1>5 DEF CheckHealth, NoAnswer, Answer
  <2>2. AnswerInv'
    BY <1>2, <1>3, <1>4, <2>1 DEF Inv, AnswerInv
  <2>3. ~rushed' => ~rushed /\ InFlight = {}
    BY <1>5 DEF CheckHealth
  <2>4. InFlight = {} => InFlight' = {c}
    BY <1>4, <2>1 DEF InFlight
  <2>5. InFlight = {} => \A d \in Checks : check'[d].at # "ok"
    BY <1>4, <2>1 DEF InFlight
  <2>6. PatientInv'
    BY <2>3, <2>4, <2>5 DEF PatientInv
  <2> QED
    BY <1>3, <2>2, <2>6 DEF Inv
<1>6. CASE Ping(c)
  <2>1. check'[c].at \in {"pinged", "failed"} /\ life # 0 /\ check[c].at = "sent"
    BY <1>1, <1>6 DEF Ping, NoAnswer, Answer
  <2>2. UNCHANGED <<shown, rushed>>
    BY <1>6 DEF Ping, page
  <2>3. AnswerInv'
    BY <1>2, <1>3, <1>4, <2>1, <2>2 DEF Inv, AnswerInv
  <2>4. InFlight' = InFlight
    BY <1>4, <2>1 DEF InFlight
  <2>5. PatientInv'
    BY <1>4, <2>1, <2>2, <2>4 DEF Inv, PatientInv
  <2> QED
    BY <1>3, <2>3, <2>5 DEF Inv
<1>7. CASE LoadTotal(c)
  <2>1. check'[c] = Answer("ok", total, life) /\ check[c].at = "pinged" /\ life # 0
    BY <1>1, <1>7 DEF LoadTotal, Inv, AnswerInv
  <2>2. UNCHANGED <<shown, rushed>>
    BY <1>7 DEF LoadTotal, page
  <2>3. Followed(check'[c])
    BY <1>1, <2>1 DEF Followed, MayFollow, Answer, Inv, CountInv
  <2>4. AnswerInv'
    BY <1>2, <1>3, <1>4, <2>1, <2>2, <2>3 DEF Inv, AnswerInv, Answer
  <2>5. InFlight' = InFlight
    BY <1>4, <2>1 DEF InFlight, Answer
  <2>6. shown.at = "ok" => MayFollow(check'[c], shown)
    BY <2>1 DEF Inv, AnswerInv, Followed
  <2>7. PatientInv'
    BY <1>4, <2>2, <2>5, <2>6 DEF Inv, PatientInv
  <2> QED
    BY <1>3, <2>4, <2>7 DEF Inv
<1>8. CASE ShowReady(c) \/ ShowDisconnected(c) \/ Lose(c)
  <2>1. check'[c].at = "none" /\ check[c].at # "none" /\ rushed' = rushed
    BY <1>1, <1>8 DEF ShowReady, ShowDisconnected, Lose, Show, NoAnswer, Answer
  <2>2. shown' = shown \/ (shown' = check[c] /\ check[c].at = "ok")
    BY <1>8 DEF ShowReady, ShowDisconnected, Lose
  <2>3. AnswerInv'
    BY <1>2, <1>3, <1>4, <2>1, <2>2 DEF Inv, AnswerInv
  <2>4. InFlight' \subseteq InFlight /\ c \in InFlight /\ c \notin InFlight'
    BY <1>4, <2>1 DEF InFlight
  <2>5. ~rushed => InFlight' = {}
    BY <2>4 DEF Inv, PatientInv
  <2>6. PatientInv'
    BY <2>1, <2>5 DEF PatientInv, InFlight
  <2> QED
    BY <1>3, <2>3, <2>6 DEF Inv
<1> QED
  BY <1>5, <1>6, <1>7, <1>8 DEF Progress

LEMMA InvHolds == Spec => []Inv
<1>1. Init => Inv
  <2>1. Init => CountInv
    BY DEF Init, CountInv
  <2>2. Init => /\ \A c \in Checks : check[c].at = "none"
                /\ shown.at = "none"
    BY DEF Init, NoAnswer, Answer
  <2>3. Init => AnswerInv /\ PatientInv
    BY <2>2 DEF AnswerInv, PatientInv, InFlight
  <2>4. Init => TypeOK
    BY TypeCorrectAtStart
  <2> QED
    BY <2>1, <2>3, <2>4 DEF Inv
<1>2. Inv /\ TypeOK' /\ [Next]_vars => Inv'
  <2> SUFFICES ASSUME Inv, TypeOK', [Next]_vars PROVE Inv'
    OBVIOUS
  <2>1. CASE UNCHANGED vars
    BY <2>1 DEF vars, Inv, TypeOK, CountInv, AnswerInv, Followed, PatientInv, InFlight
  <2>2. CASE Next
    BY <2>2, ServerKeepsInv, CheckKeepsInv DEF Next
  <2> QED
    BY <2>1, <2>2
<1> QED
  BY <1>1, <1>2, TypeCorrect, PTL DEF Spec

\* TotalsGoForward: while no two checks overlap, the totals on the badge are
\* never taken back, except to the zero of a new process.
THEOREM BadgeGoesForward == Spec => TotalsGoForward
<1>1. Inv /\ [Next]_vars =>
        [~rushed /\ shown.at = "ok" /\ shown' # shown => MayFollow(shown', shown)]_vars
  <2> SUFFICES ASSUME Inv, Next, ~rushed, shown.at = "ok", shown' # shown
               PROVE  MayFollow(shown', shown)
    OBVIOUS
  <2>1. PICK c \in Checks : ShowReady(c)
    BY DEF Next, Change, DatabaseDown, DatabaseBack, Crash, Restart, StartCount, CountOk,
           CountFails, CheckHealth, Progress, Ping, LoadTotal, ShowDisconnected, Lose, page
  <2> QED
    BY <2>1 DEF ShowReady, Inv, PatientInv
<1> QED
  BY <1>1, InvHolds, PTL DEF TotalsGoForward, Spec
=============================================================================
