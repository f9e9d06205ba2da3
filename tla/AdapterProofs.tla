---------------------------- MODULE AdapterProofs ----------------------------
(***************************************************************************)
(* Theorems about the goal adapter for every value of its limits: its      *)
(* counters stay within them, goals exclude each other, success is          *)
(* confirmed, and a cancel lets at most one more movement start.            *)
(***************************************************************************)
EXTENDS AdapterChecks, TLAPS

(* The robot is to be rotated: by the map-yaw loop or by the /spin action. *)
Spinning(a) ==
    \/ a.phase \in {"turn", "turning", "spin"}
    \/ a.phase \in {"sending", "running"} /\ a.child = "spin"

(* A position is being corrected by run_terminal_forward or a micro         *)
(* reverse.                                                                 *)
Driving(a) ==
    \/ a.phase \in {"terminal", "reverse"}
    \/ a.phase \in {"sending", "running"} /\ a.child = "drive"

(* The inductive invariant of where execute() stands.  A coroutine that is *)
(* awaited knows whom it returns to, and a counter that its return          *)
(* increments is still below its limit.                                     *)
CursorOK(a) ==
    /\ a \in Cursor
    /\ a.caller = "correction" => a.cycle < Cycles
    /\ Driving(a) => a.caller # "none"
    /\ Spinning(a) =>
         /\ a.turning # "none"
         /\ a.turning \in {"bearing", "reverse"} => a.caller # "none"
         /\ a.turning = "bearing" => a.recheck < RecheckCount
         /\ a.turning = "reverse" => a.recheck < ReverseTurns
         /\ a.turning = "heading" => a.step < HeadingSteps
    /\ a.result # "none" => a.phase = "finish"
    /\ a.phase = "heading" => a.sample = 0

LEMMA Limits ==
    /\ RetryCount \in Nat /\ RecheckCount \in Nat /\ Cycles \in Nat
    /\ HeadingSteps \in Nat \ {0} /\ Confirmations \in Nat \ {0}
    /\ ReverseTurns = 3
BY AdapterAssumption DEF ReverseTurns

(* Phases in which execute() has begun and not ended. *)
Underway == Phases \ {"idle", "reserved", "finish"}

(* Phases in which no movement runs and no final pose is being confirmed. *)
Resting == {"start", "clearance", "cleared", "route", "direct", "terminal", "reverse",
            "converge", "heading", "unaligned", "turn", "spin", "finish"}

(* A place execute() may go on from one that is under way, without starting *)
(* a movement, confirming a pose or succeeding.                             *)
Proceeds(a) == CursorOK(a) /\ a.phase \in Resting /\ a.result # "succeeded"
-----------------------------------------------------------------------------
(* Every continuation keeps the invariant.                                  *)

(* Changing the phase, with what each continuation changes beside it, gives *)
(* a cursor again.                                                          *)
Rechecks == 0 .. IF RecheckCount > ReverseTurns THEN RecheckCount
                                                ELSE ReverseTurns
Callers == {"none", "clearance", "approach", "correction"}

LEMMA CursorEdits ==
    ASSUME NEW a \in Cursor, NEW p \in Phases, NEW k \in Callers,
           NEW d \in 0 .. RetryCount + 1, NEW e \in Rechecks,
           NEW f \in 0 .. Cycles, NEW g \in 0 .. HeadingSteps,
           NEW h \in 0 .. Confirmations - 1
    PROVE  /\ [a EXCEPT !.phase = p, !.caller = k, !.recheck = e,
                        !.attempt = d] \in Cursor
           /\ [a EXCEPT !.phase = p, !.cycle = f, !.step = g, !.sample = h,
                        !.attempt = d, !.recheck = e, !.caller = k] \in Cursor
           /\ [a EXCEPT !.phase = p, !.step = g, !.sample = h] \in Cursor
           /\ [a EXCEPT !.phase = p, !.recheck = e] \in Cursor
<1> DEFINE b == [a EXCEPT !.phase = p, !.cycle = f, !.step = g, !.sample = h,
                          !.attempt = d, !.recheck = e, !.caller = k]
<1>1. [a EXCEPT !.phase = p, !.caller = k, !.recheck = e, !.attempt = d]
        \in Cursor
  BY DEF Cursor, Rechecks, Callers
<1>2. b \in Cursor
  BY DEF Cursor, Rechecks, Callers
<1>3. [a EXCEPT !.phase = p, !.step = g, !.sample = h] \in Cursor
  BY DEF Cursor
<1>4. [a EXCEPT !.phase = p, !.recheck = e] \in Cursor
  BY DEF Cursor, Rechecks
<1> QED BY <1>1, <1>2, <1>3, <1>4

LEMMA NowhereOK ==
    /\ CursorOK(Nowhere) /\ Nowhere.phase = "idle" /\ Nowhere.result = "none"
    /\ LET b == [Nowhere EXCEPT !.phase = "reserved"]
       IN  CursorOK(b) /\ b.phase = "reserved" /\ b.result = "none"
<1> DEFINE b == [Nowhere EXCEPT !.phase = "reserved"]
<1>1. Nowhere \in Cursor
  BY Limits DEF Nowhere, Cursor, Phases
<1>2. Nowhere.phase = "idle" /\ Nowhere.caller = "none" /\ Nowhere.result = "none"
  BY DEF Nowhere
<1>3. CursorOK(Nowhere)
  BY <1>1, <1>2 DEF CursorOK, Driving, Spinning
<1>4. b \in Cursor /\ b.phase = "reserved"
  <2>1. "reserved" \in Phases
    BY DEF Phases
  <2> QED BY <1>1, <2>1 DEF Cursor
<1>5. b.caller = "none" /\ b.result = "none"
  BY DEF Nowhere
<1> HIDE DEF b
<1>6. CursorOK(b)
  BY <1>4, <1>5 DEF CursorOK, Driving, Spinning
<1> QED BY <1>2, <1>3, <1>4, <1>5, <1>6 DEF b

LEMMA EndingsOK ==
    ASSUME CursorOK(at)
    PROVE  /\ Proceeds(Fail) /\ Fail.phase = "finish"
           /\ CursorOK(Succeed) /\ Succeed.phase = "finish"
           /\ Succeed.result = "succeeded"
<1>0. at \in Cursor
  BY DEF CursorOK
<1>1. ASSUME NEW r \in {"succeeded", "canceled", "aborted"}
      PROVE  LET b == [at EXCEPT !.phase = "finish", !.result = r]
             IN  CursorOK(b) /\ b.phase = "finish" /\ b.result = r
  <2> DEFINE b == [at EXCEPT !.phase = "finish", !.result = r]
  <2>1. b \in Cursor
    <3>1. "finish" \in Phases
      BY DEF Phases
    <3> QED BY <1>0, <3>1 DEF Cursor
  <2>2. b.phase = "finish" /\ b.caller = at.caller /\ b.cycle = at.cycle
        /\ b.result = r
    BY <1>0 DEF Cursor
  <2> HIDE DEF b
  <2>9. CursorOK(b)
    BY <2>1, <2>2 DEF CursorOK, Driving, Spinning
  <2> QED BY <2>2, <2>9 DEF b
<1>2. CursorOK(Fail) /\ Fail.phase = "finish" /\ Fail.result # "succeeded"
  BY <1>1 DEF Fail
<1>3. Proceeds(Fail)
  BY <1>2 DEF Proceeds, Resting
<1> QED BY <1>1, <1>2, <1>3 DEF Succeed

(* Going on to a phase that neither drives nor spins. *)
LEMMA PlainPhaseOK ==
    ASSUME CursorOK(at), at.phase \in Underway,
           NEW p \in Resting \ {"terminal", "reverse", "turn", "spin", "heading"},
           NEW app \in BOOLEAN
    PROVE  /\ Proceeds([at EXCEPT !.phase = p])
           /\ Proceeds([at EXCEPT !.phase = p, !.approach = app])
<1>1. at \in Cursor /\ at.result = "none"
  BY DEF CursorOK, Underway
<1>0. p \in Phases
  BY DEF Resting, Phases
<1>2. Proceeds([at EXCEPT !.phase = p])
  <2> DEFINE b == [at EXCEPT !.phase = p]
  <2>1. b \in Cursor
    BY <1>0, <1>1 DEF Cursor
  <2>2. b.phase = p /\ b.caller = at.caller /\ b.cycle = at.cycle
        /\ b.result = "none"
    BY <1>1 DEF Cursor
  <2> HIDE DEF b
  <2>9. Proceeds(b)
    BY <2>1, <2>2 DEF CursorOK, Proceeds, Resting, Driving, Spinning
  <2> QED BY <2>9 DEF b
<1>3. Proceeds([at EXCEPT !.phase = p, !.approach = app])
  <2> DEFINE b == [at EXCEPT !.phase = p, !.approach = app]
  <2>1. b \in Cursor
    BY <1>0, <1>1 DEF Cursor
  <2>2. b.phase = p /\ b.caller = at.caller /\ b.cycle = at.cycle
        /\ b.result = "none"
    BY <1>1 DEF Cursor
  <2> HIDE DEF b
  <2>9. Proceeds(b)
    BY <2>1, <2>2 DEF CursorOK, Proceeds, Resting, Driving, Spinning
  <2> QED BY <2>9 DEF b
<1> QED BY <1>2, <1>3

LEMMA SendOK ==
    ASSUME CursorOK(at), at.phase \in Underway, NEW c \in Children,
           c = "drive" => at.caller # "none",
           c = "spin" => at.phase = "spin"
    PROVE  /\ CursorOK(Send(c)) /\ Send(c).phase = "sending"
           /\ Send(c).child = c /\ Send(c).result = "none"
<1> DEFINE b == Send(c)
<1>1. at \in Cursor /\ at.result = "none"
  BY DEF CursorOK, Underway
<1>2. b \in Cursor
  BY <1>1 DEF Cursor, Phases, Send
<1>3. /\ b.phase = "sending" /\ b.child = c /\ b.caller = at.caller
      /\ b.cycle = at.cycle /\ b.result = "none" /\ b.turning = at.turning
      /\ b.recheck = at.recheck /\ b.step = at.step
  BY <1>1 DEF Cursor, Send
<1> HIDE DEF b
<1>9. CursorOK(b)
  BY <1>2, <1>3 DEF CursorOK, Driving, Spinning
<1> QED BY <1>3, <1>9 DEF b

(* A child starts to run, the map-yaw loop starts to publish, the final     *)
(* confirmation begins, or the reserved goal starts.                        *)
LEMMA BeginsOK ==
    ASSUME CursorOK(at), at.result = "none",
           NEW p \in {"start", "confirm", "turning", "running"},
           p = "turning" => at.phase = "turn",
           p = "running" => at.phase = "sending"
    PROVE  LET b == [at EXCEPT !.phase = p]
           IN  /\ CursorOK(b) /\ b.phase = p /\ b.child = at.child
               /\ b.result = "none" /\ b.sample = at.sample
<1> DEFINE b == [at EXCEPT !.phase = p]
<1>1. at \in Cursor
  BY DEF CursorOK
<1>2. p \in Phases
  BY DEF Phases
<1>3. b \in Cursor
  BY <1>1, <1>2 DEF Cursor
<1>4. /\ b.phase = p /\ b.child = at.child /\ b.caller = at.caller
      /\ b.cycle = at.cycle /\ b.result = "none" /\ b.turning = at.turning
      /\ b.recheck = at.recheck /\ b.step = at.step /\ b.sample = at.sample
  BY <1>1 DEF Cursor
<1> HIDE DEF b
<1>5. CursorOK(b)
  BY <1>3, <1>4 DEF CursorOK, Driving, Spinning
<1> QED BY <1>4, <1>5 DEF b

(* One more sample is within tolerance, and it is not the last one. *)
LEMMA SampleOK ==
    ASSUME CursorOK(at), at.phase = "confirm", at.sample + 1 # Confirmations
    PROVE  LET b == [at EXCEPT !.sample = @ + 1]
           IN  /\ CursorOK(b) /\ b.phase = "confirm" /\ b.result = "none"
               /\ b.sample = at.sample + 1
<1> DEFINE n == at.sample + 1
           b == [at EXCEPT !.sample = n]
<1>1. at \in Cursor /\ at.result = "none"
  BY DEF CursorOK
<1>2. n \in 0 .. Confirmations - 1
  BY <1>1, Limits DEF Cursor
<1> HIDE DEF n
<1>3. b \in Cursor
  BY <1>1, <1>2 DEF Cursor
<1>4. /\ b.phase = "confirm" /\ b.caller = at.caller
      /\ b.cycle = at.cycle /\ b.result = "none" /\ b.sample = n
  BY <1>1 DEF Cursor
<1> HIDE DEF b
<1>5. CursorOK(b)
  BY <1>3, <1>4 DEF CursorOK, Driving, Spinning
<1> QED BY <1>4, <1>5 DEF b, n

(* A child has ended. *)
LEMMA ChildDroppedOK ==
    ASSUME NEW n, Proceeds(n)
    PROVE  LET b == [n EXCEPT !.child = "none"]
           IN  Proceeds(b) /\ b.phase = n.phase
<1> DEFINE b == [n EXCEPT !.child = "none"]
<1>1. n \in Cursor
  BY DEF Proceeds, CursorOK
<1>2. b \in Cursor
  BY <1>1 DEF Cursor
<1>3. /\ b.phase = n.phase /\ b.caller = n.caller
      /\ b.cycle = n.cycle /\ b.result = n.result /\ b.turning = n.turning
      /\ b.recheck = n.recheck /\ b.step = n.step /\ b.sample = n.sample
  BY <1>1 DEF Cursor
<1> HIDE DEF b
<1>4. Proceeds(b)
  BY <1>2, <1>3 DEF CursorOK, Proceeds, Resting, Driving, Spinning
<1> QED BY <1>3, <1>4 DEF b

LEMMA TerminalOK ==
    ASSUME CursorOK(at), at.phase \in Underway,
           NEW caller \in {"clearance", "approach", "correction"},
           caller = "correction" => at.cycle < Cycles,
           NEW attempt \in Nat, NEW again \in BOOLEAN
    PROVE  /\ Proceeds(Terminal(caller, attempt))
           /\ Proceeds([Reverse(again) EXCEPT !.caller = caller])
<1>1. at \in Cursor /\ at.result = "none"
  BY DEF CursorOK, Underway
<1>2. Proceeds(Terminal(caller, attempt))
  <2> DEFINE b == Terminal(caller, attempt)
             n == IF attempt > RetryCount THEN RetryCount + 1 ELSE attempt
  <2>1. n \in 0 .. RetryCount + 1
    BY Limits
  <2>2. b = [at EXCEPT !.phase = "terminal", !.caller = caller, !.recheck = 0,
                       !.attempt = n]
    BY DEF Terminal
  <2> HIDE DEF n
  <2>3. b \in Cursor
    <3>1. 0 \in Rechecks /\ "terminal" \in Phases /\ caller \in Callers
      BY Limits DEF Rechecks, Phases, Callers
    <3>2. 0 \in 0 .. Cycles /\ 0 \in 0 .. HeadingSteps
          /\ 0 \in 0 .. Confirmations - 1
      BY Limits
    <3> HIDE DEF b
    <3> QED BY <1>1, <2>1, <2>2, <3>1, <3>2, CursorEdits
  <2>4. b.phase = "terminal" /\ b.caller = caller /\ b.cycle = at.cycle
        /\ b.result = "none"
    BY <1>1, <2>2 DEF Cursor
  <2> HIDE DEF b
  <2>5. Proceeds(b)
    BY <2>3, <2>4 DEF CursorOK, Proceeds, Resting, Driving, Spinning
  <2> QED BY <2>5 DEF b
<1>3. Proceeds([Reverse(again) EXCEPT !.caller = caller])
  <2> DEFINE b == [Reverse(again) EXCEPT !.caller = caller]
  <2>1. Reverse(again) \in Cursor
    <3>1. 0 \in Rechecks /\ "reverse" \in Phases
      BY Limits DEF Rechecks, Phases
    <3> QED BY <1>1, <3>1 DEF Reverse, Cursor, Rechecks
  <2>2. Reverse(again).phase = "reverse" /\ Reverse(again).cycle = at.cycle
        /\ Reverse(again).result = "none"
    BY <1>1 DEF Reverse, Cursor
  <2>3. b \in Cursor
    BY <2>1 DEF Cursor
  <2>4. b.phase = "reverse" /\ b.caller = caller /\ b.cycle = at.cycle
        /\ b.result = "none"
    BY <2>1, <2>2 DEF Cursor
  <2> HIDE DEF b
  <2>9. Proceeds(b)
    BY <2>3, <2>4 DEF CursorOK, Proceeds, Resting, Driving, Spinning
  <2> QED BY <2>9 DEF b
<1> QED BY <1>2, <1>3

LEMMA ConvergeOK ==
    ASSUME CursorOK(at), at.phase \in Underway, NEW cycle \in 0 .. Cycles
    PROVE  /\ Proceeds(Converge(cycle))
           /\ Proceeds([Converge(cycle) EXCEPT !.phase = "cleared"])
<1>1. at \in Cursor /\ at.result = "none"
  BY DEF CursorOK, Underway
<1> DEFINE b == Converge(cycle)
           d == [b EXCEPT !.phase = "cleared"]
<1>2. b \in Cursor
  <2>1. 0 \in Rechecks /\ "converge" \in Phases /\ "none" \in Callers
    BY Limits DEF Rechecks, Phases, Callers
  <2>2. 0 \in 0 .. RetryCount + 1 /\ 0 \in 0 .. HeadingSteps
        /\ 0 \in 0 .. Confirmations - 1
    BY Limits
  <2> QED BY <1>1, <2>1, <2>2, CursorEdits DEF Converge
<1>3. b.phase = "converge" /\ b.caller = "none" /\ b.result = "none"
  BY <1>1 DEF Converge, Cursor
<1> HIDE DEF b
<1>4. Proceeds(b)
  BY <1>2, <1>3 DEF CursorOK, Proceeds, Resting, Driving, Spinning
<1>5. d \in Cursor
  BY <1>2 DEF Cursor, Phases
<1>6. d.phase = "cleared" /\ d.caller = "none" /\ d.result = "none"
  BY <1>2, <1>3 DEF Cursor
<1>7. Proceeds(d)
  <2> HIDE DEF d
  <2> QED BY <1>5, <1>6 DEF CursorOK, Proceeds, Resting, Driving, Spinning
<1> QED BY <1>4, <1>7 DEF b

LEMMA HeadingOK ==
    ASSUME CursorOK(at), at.phase \in Underway, NEW step \in 0 .. HeadingSteps
    PROVE  Proceeds(Heading(step)) /\ Proceeds(Unaligned)
<1>1. at \in Cursor /\ at.result = "none"
  BY DEF CursorOK, Underway
<1>2. ASSUME NEW p \in {"heading", "unaligned"}, NEW n \in 0 .. HeadingSteps
      PROVE  Proceeds([at EXCEPT !.phase = p, !.step = n, !.sample = 0])
  <2> DEFINE b == [at EXCEPT !.phase = p, !.step = n, !.sample = 0]
  <2>1. b \in Cursor
    <3>1. 0 \in 0 .. Confirmations - 1
      BY Limits
    <3> QED BY <1>1, <3>1 DEF Cursor, Phases
  <2>2. b.phase = p /\ b.caller = at.caller /\ b.cycle = at.cycle
        /\ b.result = "none" /\ b.sample = 0
    BY <1>1 DEF Cursor
  <2> HIDE DEF b
  <2>9. Proceeds(b)
    BY <2>1, <2>2 DEF CursorOK, Proceeds, Resting, Driving, Spinning
  <2> QED BY <2>9 DEF b
<1>3. Proceeds(Heading(step))
  BY <1>2 DEF Heading
<1>4. Proceeds(Unaligned)
  <2>1. 0 \in 0 .. HeadingSteps
    BY Limits
  <2> QED BY <1>2, <2>1 DEF Unaligned
<1> QED BY <1>3, <1>4

LEMMA TurnOK ==
    ASSUME CursorOK(at), at.phase \in Underway,
           NEW t \in {"pre", "direct", "bearing", "reverse", "heading"},
           t \in {"bearing", "reverse"} => at.caller # "none",
           t = "bearing" => at.recheck < RecheckCount,
           t = "reverse" => at.recheck < ReverseTurns,
           t = "heading" => at.step < HeadingSteps,
           NEW app \in BOOLEAN
    PROVE  Proceeds(Turn(t)) /\ Proceeds([Turn(t) EXCEPT !.approach = app])
<1>1. at \in Cursor /\ at.result = "none"
  BY DEF CursorOK, Underway
<1> DEFINE b == Turn(t)
           d == [b EXCEPT !.approach = app]
<1>2. b \in Cursor /\ b.phase \in {"turn", "spin"}
  <2>1. "turn" \in Phases /\ "spin" \in Phases
    BY DEF Phases
  <2>2. CASE UseMapYawSpin
    BY <1>1, <2>1, <2>2 DEF Turn, Cursor
  <2>3. CASE ~UseMapYawSpin
    BY <1>1, <2>1, <2>3 DEF Turn, Cursor
  <2> QED BY <2>2, <2>3
<1>3. /\ b.turning = t /\ b.caller = at.caller /\ b.cycle = at.cycle
      /\ b.result = "none" /\ b.recheck = at.recheck /\ b.step = at.step
  BY <1>1 DEF Turn, Cursor
<1> HIDE DEF b
<1>4. Proceeds(b)
  BY <1>2, <1>3 DEF CursorOK, Proceeds, Resting, Driving, Spinning
<1>5. d \in Cursor
  BY <1>2 DEF Cursor
<1>6. /\ d.turning = t /\ d.caller = at.caller /\ d.cycle = at.cycle
      /\ d.result = "none" /\ d.recheck = at.recheck /\ d.step = at.step
      /\ d.phase = b.phase
  BY <1>2, <1>3 DEF Cursor
<1>7. Proceeds(d)
  <2> HIDE DEF d
  <2> QED BY <1>2, <1>5, <1>6 DEF CursorOK, Proceeds, Resting, Driving, Spinning
<1> QED BY <1>4, <1>7 DEF b

LEMMA MoveDoneOK ==
    ASSUME CursorOK(at), at.phase \in Underway, at.caller # "none"
    PROVE  Proceeds(MoveDone)
<1>1. at.caller \in {"clearance", "approach", "correction"}
      /\ (at.caller = "correction" => at.cycle + 1 \in 0 .. Cycles)
  BY Limits DEF CursorOK, Cursor
<1>2. 0 \in 0 .. Cycles
  BY Limits
<1>3. CASE at.caller \in {"clearance", "approach"}
  <2>1. Proceeds(Converge(0)) /\ Proceeds([Converge(0) EXCEPT !.phase = "cleared"])
    BY <1>2, ConvergeOK
  <2> QED BY <1>3, <2>1 DEF MoveDone
<1>4. CASE at.caller = "correction"
  BY <1>1, <1>4, ConvergeOK DEF MoveDone
<1> QED BY <1>1, <1>3, <1>4

LEMMA SpinEndingsOK ==
    ASSUME CursorOK(at), Spinning(at)
    PROVE  Proceeds(SpinDone) /\ Proceeds(SpinFailed)
<1>1. at.phase \in Underway
  BY DEF Spinning, Underway, Phases
<1>2. /\ at \in Cursor /\ at.result = "none"
      /\ at.turning \in {"pre", "direct", "bearing", "reverse", "heading"}
  BY <1>1 DEF CursorOK, Cursor, Underway
<1>3. Proceeds([at EXCEPT !.phase = "route"])
      /\ Proceeds([at EXCEPT !.phase = "direct"])
  BY <1>1, PlainPhaseOK DEF Resting
<1>4. Proceeds(SpinFailed)
  BY <1>1, <1>3, EndingsOK, HeadingOK, Limits DEF SpinFailed, Route
<1>5. CASE at.turning \in {"pre", "direct"}
  BY <1>3, <1>4, <1>5 DEF SpinDone, Route
<1>6. CASE at.turning = "heading"
  <2>1. at.step + 1 \in 0 .. HeadingSteps
    BY <1>2, <1>6, Limits DEF CursorOK, Cursor
  <2> QED BY <1>1, <1>4, <1>6, <2>1, HeadingOK DEF SpinDone
<1>7. ASSUME NEW p \in {"terminal", "reverse"}, at.caller # "none",
             at.recheck < RecheckCount \/ at.recheck < ReverseTurns
      PROVE  Proceeds([at EXCEPT !.phase = p, !.recheck = @ + 1])
  <2> DEFINE n == at.recheck + 1
             b == [at EXCEPT !.phase = p, !.recheck = n]
  <2>1. n \in 0 .. IF RecheckCount > ReverseTurns THEN RecheckCount
                                                  ELSE ReverseTurns
    BY <1>2, <1>7, Limits DEF Cursor
  <2> HIDE DEF n
  <2>2. b \in Cursor
    <3>1. p \in Phases
      BY DEF Phases
    <3> QED BY <1>2, <2>1, <3>1 DEF Cursor
  <2>3. b.phase = p /\ b.caller = at.caller /\ b.cycle = at.cycle
        /\ b.result = "none"
    BY <1>2 DEF Cursor
  <2>4. Proceeds(b)
    <3> HIDE DEF b
    <3>9. Proceeds(b)
      BY <1>7, <2>2, <2>3 DEF CursorOK, Proceeds, Resting, Driving, Spinning
    <3> QED BY <3>9 DEF b
  <2> QED BY <2>4 DEF n
<1>8. CASE at.turning = "bearing"
  BY <1>4, <1>7, <1>8 DEF SpinDone, CursorOK
<1>9. CASE at.turning = "reverse"
  BY <1>4, <1>7, <1>9 DEF SpinDone, CursorOK
<1> QED BY <1>2, <1>5, <1>6, <1>8, <1>9

(* choose_final_position_correction, and a correction in a cycle. *)
LEMMA CorrectionsOK ==
    ASSUME CursorOK(at), at.phase \in Underway,
           NEW caller \in {"clearance", "approach", "correction"},
           caller = "correction" => at.cycle < Cycles,
           NEW attempt \in Nat, NEW n \in Corrections(caller, attempt)
    PROVE  Proceeds(n)
<1>1. \/ n = Terminal(caller, attempt)
      \/ \E r \in BOOLEAN : n = [Reverse(r) EXCEPT !.caller = caller]
  BY DEF Corrections
<1> QED BY <1>1, TerminalOK

LEMMA CorrectedOK ==
    ASSUME CursorOK(at), at.phase \in Underway,
           NEW z \in Zones, NEW n \in Corrected(z)
    PROVE  Proceeds(n)
<1>1. at.cycle + 1 \in Nat
  BY Limits DEF CursorOK, Cursor
<1>2. CASE at.cycle < Cycles /\ z \in {"aligned", "near"}
  <2>1. n \in Corrections("correction", at.cycle + 1)
    BY <1>2 DEF Corrected
  <2> QED BY <1>1, <1>2, <2>1, CorrectionsOK
<1>3. CASE ~(at.cycle < Cycles /\ z \in {"aligned", "near"})
  <2>1. n = Fail
    BY <1>3 DEF Corrected
  <2> QED BY <2>1, EndingsOK
<1> QED BY <1>2, <1>3
-----------------------------------------------------------------------------
(* A step of execute() between its start and its end: it goes on (and ends  *)
(* when a child other than a spin ends after a cancel), starts a movement   *)
(* (a rotation only when not canceled), begins the confirmation after the   *)
(* heading check, or confirms one sample more, the last one with success.   *)
GoesOn ==
    /\ Proceeds(at')
    /\ Canceled /\ at.phase \in {"sending", "running"} /\ at.child # "spin"
          => at'.phase = "finish"

StartsMovement ==
    /\ at'.result = "none"
    /\ \/ at.phase \in Resting /\ at'.phase = "sending"
          /\ (at'.child = "spin" => ~Canceled)
       \/ at.phase = "sending" /\ at'.phase = "running" /\ at'.child = at.child
       \/ at.phase = "turn" /\ at'.phase = "turning" /\ ~Canceled

Confirms ==
    \/ /\ at.phase = "heading" /\ at'.phase = "confirm" /\ at'.sample = 0
       /\ at'.result = "none"
    \/ /\ at.phase = "confirm" /\ at'.phase = "confirm"
       /\ at'.sample = at.sample + 1 /\ at'.result = "none"
    \/ /\ at.phase = "confirm" /\ at'.phase = "finish"
       /\ at.sample + 1 = Confirmations /\ at'.result = "succeeded"

Advance ==
    /\ at.phase \in Underway /\ CursorOK(at')
    /\ GoesOn \/ StartsMovement \/ Confirms

LEMMA GoingOn ==
    ASSUME Proceeds(at'), at.phase \in Underway \ {"sending", "running"}
    PROVE  Advance
BY DEF Advance, GoesOn, Proceeds

LEMMA Sending ==
    ASSUME CursorOK(at), at.phase \in Resting \ {"finish"}, NEW c \in Children,
           c = "drive" => at.caller # "none",
           c = "spin" => at.phase = "spin" /\ ~Canceled,
           at' = Send(c)
    PROVE  Advance
<1>1. at.phase \in Underway
  BY DEF Underway, Phases, Resting
<1> QED BY <1>1, SendOK DEF Advance, StartsMovement

(* The places execute() goes on from without a movement having run. *)
LEMMA RouteAdvances ==
    ASSUME CursorOK(at),
           ChooseRoute \/ TurnClearance \/ TurnCleared \/ SendRoute \/ SendDirectReverse
    PROVE  Advance
<1>1. /\ at.phase \in {"start", "clearance", "cleared", "route", "direct"}
      /\ at.phase \in Underway \ {"sending", "running"}
      /\ at.phase \in Resting \ {"finish"}
  BY DEF ChooseRoute, TurnClearance, TurnCleared, SendRoute, SendDirectReverse,
         Underway, Phases, Resting
<1>2. Proceeds(Fail)
  BY EndingsOK
<1>3. ASSUME NEW app \in BOOLEAN
      PROVE  /\ Proceeds(Route) /\ Proceeds([Route EXCEPT !.approach = app])
             /\ Proceeds([at EXCEPT !.phase = "clearance", !.approach = app])
             /\ Proceeds([at EXCEPT !.phase = "direct"])
  <2>1. {"route", "clearance", "direct"}
          \subseteq Resting \ {"terminal", "reverse", "turn", "spin", "heading"}
    BY DEF Resting
  <2> QED BY <1>1, <2>1, PlainPhaseOK DEF Route
<1>4. ASSUME NEW app \in BOOLEAN
      PROVE  /\ Proceeds(Turn("pre")) /\ Proceeds(Turn("direct"))
             /\ Proceeds([Turn("pre") EXCEPT !.approach = app])
  <2>1. ASSUME NEW t \in {"pre", "direct"}
        PROVE  Proceeds(Turn(t)) /\ Proceeds([Turn(t) EXCEPT !.approach = app])
    <3>1. /\ t \in {"pre", "direct", "bearing", "reverse", "heading"}
          /\ t \notin {"bearing", "reverse"} /\ t # "bearing" /\ t # "reverse"
          /\ t # "heading" /\ at.phase \in Underway
      BY <1>1
    <3> HIDE <1>1, <1>2, <1>3
    <3> QED BY <3>1, TurnOK
  <2> QED BY <2>1
<1>5. Proceeds(Converge(0))
  <2>1. 0 \in 0 .. Cycles
    BY Limits
  <2> QED BY <1>1, <2>1, ConvergeOK
<1>6. CASE ChooseRoute
  <2>1. PICK app \in BOOLEAN :
          at' \in {Fail, Converge(0), [Route EXCEPT !.approach = app],
                  [Turn("pre") EXCEPT !.approach = app],
                  [at EXCEPT !.phase = "clearance", !.approach = app],
                  Turn("direct"), [at EXCEPT !.phase = "direct"]}
    BY <1>6 DEF ChooseRoute, Moves
  <2>2. Proceeds(at')
    BY <1>2, <1>3, <1>4, <1>5, <2>1
  <2> QED BY <1>1, <2>2, GoingOn
<1>7. CASE TurnClearance \/ TurnCleared
  <2>1. at' \in {Fail, Route, Turn("pre"), Terminal("clearance", 1)}
    BY <1>7 DEF TurnClearance, TurnCleared, Moves
  <2>2. Proceeds(at')
    BY <1>1, <1>2, <1>3, <1>4, <2>1, TerminalOK
  <2> QED BY <1>1, <2>2, GoingOn
<1>8. CASE SendRoute \/ SendDirectReverse
  <2>1. at' \in {Fail, Send("inner"), Send("backup")}
    BY <1>8 DEF SendRoute, SendDirectReverse, Moves
  <2>2. CASE at' = Fail
    BY <1>1, <1>2, <2>2, GoingOn
  <2>3. ASSUME NEW c \in {"inner", "backup"}, at' = Send(c)
        PROVE  Advance
    BY <1>1, <2>3, Sending DEF Children
  <2> QED BY <2>1, <2>2, <2>3
<1> QED BY <1>6, <1>7, <1>8

LEMMA CorrectionAdvances ==
    ASSUME CursorOK(at),
           TerminalForward \/ FinalPositionMicroReverse \/ ConvergeFinalPose
             \/ AlignmentFailed
    PROVE  Advance
<1>1. /\ at.phase \in {"terminal", "reverse", "converge", "unaligned"}
      /\ at.phase \in Underway \ {"sending", "running"}
      /\ at.phase \in Resting \ {"finish"}
  BY DEF TerminalForward, FinalPositionMicroReverse, ConvergeFinalPose,
         AlignmentFailed, Underway, Phases, Resting
<1>2. Proceeds(Fail)
  BY EndingsOK
<1>3. CASE TerminalForward
  <2>1. at.caller # "none"
    BY <1>3 DEF TerminalForward, CursorOK, Driving
  <2>2. \/ at' \in {MoveDone, Fail, Send("drive")}
        \/ at.recheck < RecheckCount /\ at' = Turn("bearing")
    BY <1>3 DEF TerminalForward, Moves
  <2>3. CASE at' = MoveDone
    BY <1>1, <2>1, <2>3, MoveDoneOK, GoingOn
  <2>4. CASE at' = Fail
    BY <1>1, <1>2, <2>4, GoingOn
  <2>5. CASE at' = Send("drive")
    <3>1. "drive" \in Children
      BY DEF Children
    <3> QED BY <1>1, <2>1, <2>5, <3>1, Sending
  <2>6. CASE at.recheck < RecheckCount /\ at' = Turn("bearing")
    <3>1. Proceeds(Turn("bearing"))
      BY <1>1, <2>1, <2>6, TurnOK
    <3> QED BY <1>1, <2>6, <3>1, GoingOn
  <2> QED BY <2>2, <2>3, <2>4, <2>5, <2>6
<1>4. CASE FinalPositionMicroReverse
  <2>1. at.caller # "none"
    BY <1>4 DEF FinalPositionMicroReverse, CursorOK, Driving
  <2>2. \/ at' \in {Fail, Send("backup")}
        \/ at.recheck < ReverseTurns /\ at' = Turn("reverse")
    BY <1>4 DEF FinalPositionMicroReverse, Moves
  <2>3. CASE at' = Fail
    BY <1>1, <1>2, <2>3, GoingOn
  <2>4. CASE at' = Send("backup")
    <3>1. "backup" \in Children
      BY DEF Children
    <3> QED BY <1>1, <2>4, <3>1, Sending
  <2>5. CASE at.recheck < ReverseTurns /\ at' = Turn("reverse")
    <3>1. Proceeds(Turn("reverse"))
      BY <1>1, <2>1, <2>5, TurnOK
    <3> QED BY <1>1, <2>5, <3>1, GoingOn
  <2> QED BY <2>2, <2>3, <2>4, <2>5
<1>5. CASE ConvergeFinalPose \/ AlignmentFailed
  <2>1. \/ at' \in {Heading(0), Unaligned, Fail}
        \/ \E z \in Zones : at' \in Corrected(z)
    BY <1>5 DEF ConvergeFinalPose, AlignmentFailed, Moves
  <2>2. Proceeds(Heading(0)) /\ Proceeds(Unaligned)
    BY <1>1, HeadingOK, Limits
  <2>3. Proceeds(at')
    BY <1>1, <1>2, <2>1, <2>2, CorrectedOK
  <2> QED BY <1>1, <2>3, GoingOn
<1> QED BY <1>3, <1>4, <1>5

LEMMA HeadingAdvances ==
    ASSUME CursorOK(at),
           FinalAlignment \/ \E good \in BOOLEAN : ConfirmFinalPose(good)
    PROVE  Advance
<1>1. /\ at.phase \in {"heading", "confirm"} /\ at.result = "none"
      /\ at.phase \in Underway \ {"sending", "running"}
      /\ at.step \in 0 .. HeadingSteps
  BY DEF FinalAlignment, ConfirmFinalPose, Underway, Phases, CursorOK, Cursor
<1>2. Proceeds(Unaligned)
  BY <1>1, HeadingOK, Limits
<1>3. CASE FinalAlignment
  <2>1. /\ at.phase = "heading"
        /\ \/ at' = Unaligned
           \/ at' = [at EXCEPT !.phase = "confirm"]
           \/ at.step # HeadingSteps /\ at' = Turn("heading")
    BY <1>3 DEF FinalAlignment, Moves
  <2>2. CASE at' = Unaligned
    BY <1>1, <1>2, <2>2, GoingOn
  <2>3. CASE at' = [at EXCEPT !.phase = "confirm"]
    BY <1>1, <2>1, <2>3, BeginsOK DEF Advance, Confirms, CursorOK
  <2>4. CASE at.step # HeadingSteps /\ at' = Turn("heading")
    <3>1. at.step < HeadingSteps
      BY <1>1, <2>4, Limits
    <3>2. ASSUME NEW t \in {"heading"} PROVE Proceeds(Turn(t))
      BY <1>1, <3>1, TurnOK
    <3> QED BY <1>1, <2>4, <3>2, GoingOn
  <2> QED BY <2>1, <2>2, <2>3, <2>4
<1>4. ASSUME NEW good \in BOOLEAN, ConfirmFinalPose(good)
      PROVE  Advance
  <2>1. /\ at.phase = "confirm"
        /\ \/ at.sample + 1 = Confirmations /\ at' = Succeed
           \/ at.sample + 1 # Confirmations /\ at' = [at EXCEPT !.sample = @ + 1]
           \/ at' = Unaligned
           \/ at.step # HeadingSteps /\ at' = Heading(at.step + 1)
    BY <1>4 DEF ConfirmFinalPose, Moves
  <2>2. CASE at.sample + 1 = Confirmations /\ at' = Succeed
    BY <1>1, <2>1, <2>2, EndingsOK DEF Advance, Confirms
  <2>3. CASE at.sample + 1 # Confirmations /\ at' = [at EXCEPT !.sample = @ + 1]
    BY <1>1, <2>1, <2>3, SampleOK DEF Advance, Confirms
  <2>4. CASE at' = Unaligned
    BY <1>1, <1>2, <2>4, GoingOn
  <2>5. CASE at.step # HeadingSteps /\ at' = Heading(at.step + 1)
    <3>1. at.step + 1 \in 0 .. HeadingSteps
      BY <1>1, <2>5, Limits
    <3>2. Proceeds(Heading(at.step + 1))
      BY <1>1, <3>1, HeadingOK
    <3> QED BY <1>1, <2>5, <3>2, GoingOn
  <2> QED BY <2>1, <2>2, <2>3, <2>4, <2>5
<1> QED BY <1>3, <1>4

LEMMA SpinAdvances ==
    ASSUME CursorOK(at), MapSpinBegins \/ MapSpinEnds \/ SendSpin
    PROVE  Advance
<1>1. /\ at.phase \in {"turn", "turning", "spin"} /\ at.result = "none"
      /\ at.phase \in Underway \ {"sending", "running"}
      /\ Spinning(at)
  BY DEF MapSpinBegins, MapSpinEnds, SendSpin, Underway, Phases, CursorOK, Spinning
<1>2. CASE at' \in {SpinDone, SpinFailed}
  BY <1>1, <1>2, SpinEndingsOK, GoingOn
<1>3. CASE at.phase = "turn" /\ ~Canceled /\ at' = [at EXCEPT !.phase = "turning"]
  BY <1>1, <1>3, BeginsOK DEF Advance, StartsMovement
<1>4. CASE at.phase = "spin" /\ ~Canceled /\ at' = Send("spin")
  <2>1. "spin" \in Children /\ at.phase \in Resting \ {"finish"}
    BY <1>4 DEF Children, Resting
  <2> QED BY <1>4, <2>1, Sending
<1> QED BY <1>2, <1>3, <1>4 DEF MapSpinBegins, MapSpinEnds, SendSpin, Moves

(* A child has answered or ended, and execute() goes on from n. *)
LEMMA ChildLeads ==
    ASSUME CursorOK(at), at.phase \in {"sending", "running"}, NEW n, Proceeds(n),
           Canceled /\ at.child # "spin" => n.phase = "finish",
           at' = [n EXCEPT !.child = "none"]
    PROVE  Advance
<1>1. Proceeds(at') /\ at'.phase = n.phase
  BY ChildDroppedOK
<1>2. CursorOK(at')
  BY <1>1 DEF Proceeds
<1>3. at.phase \in Underway
  BY DEF Underway, Phases
<1> QED BY <1>1, <1>2, <1>3 DEF Advance, GoesOn

LEMMA DriveNextOK ==
    ASSUME CursorOK(at), at.phase = "running", at.child = "drive",
           NEW status, NEW z \in Zones, NEW n \in DriveNext(status, z)
    PROVE  Proceeds(n) /\ (Canceled => n.phase = "finish")
<1>1. /\ at.phase \in Underway /\ at.attempt + 1 \in Nat
      /\ at.caller \in {"clearance", "approach", "correction"}
      /\ at.caller = "correction" => at.cycle < Cycles
  BY Limits DEF CursorOK, Cursor, Driving, Underway, Phases
<1>2. CASE Canceled
  <2>1. n = Fail
    BY <1>2 DEF DriveNext
  <2> QED BY <2>1, EndingsOK
<1>3. CASE ~Canceled
  <2>1. \/ n \in {MoveDone, Fail, Terminal(at.caller, at.attempt + 1)}
        \/ n \in Corrections(at.caller, at.attempt + 1)
    <3>1. CASE z = "strict"
      BY <1>3, <3>1 DEF DriveNext
    <3>2. CASE z # "strict" /\ status # "succeeded"
      BY <1>3, <3>2 DEF DriveNext
    <3>3. CASE z # "strict" /\ status = "succeeded"
      BY <1>3, <3>3 DEF DriveNext
    <3> QED BY <3>1, <3>2, <3>3
  <2>2. Proceeds(MoveDone) /\ Proceeds(Fail)
    BY <1>1, MoveDoneOK, EndingsOK
  <2>3. Proceeds(Terminal(at.caller, at.attempt + 1))
    BY <1>1, TerminalOK
  <2> QED BY <1>1, <1>3, <2>1, <2>2, <2>3, CorrectionsOK
<1> QED BY <1>2, <1>3

LEMMA ChildAdvances ==
    ASSUME CursorOK(at), ChildAnswers
    PROVE  Advance
<1>1. Proceeds(Fail) /\ Fail.phase = "finish"
  BY EndingsOK
<1>2. at.phase \in {"sending", "running"} /\ at.phase \in Underway
      /\ at.result = "none"
  BY DEF ChildAnswers, ChildRejected, ChildAccepted, ChildEnds, SpinEnds, DriveEnds,
         MicroReverseEnds, DirectReverseEnds, RouteEnds, ChildReturned, Underway,
         Phases, CursorOK
<1>3. CASE ChildRejected
  <2>1. CASE at.child = "spin"
    <3>1. Proceeds(SpinFailed)
      BY <1>2, <2>1, SpinEndingsOK DEF Spinning
    <3>2. at' = [SpinFailed EXCEPT !.child = "none"]
      BY <1>3, <2>1 DEF ChildRejected
    <3> QED BY <1>2, <2>1, <3>1, <3>2, ChildLeads
  <2>2. CASE at.child # "spin"
    <3>1. at' = [Fail EXCEPT !.child = "none"]
      BY <1>3, <2>2 DEF ChildRejected
    <3> QED BY <1>1, <1>2, <3>1, ChildLeads
  <2> QED BY <2>1, <2>2
<1>4. CASE ChildAccepted
  <2>1. at.phase = "sending" /\ at' = [at EXCEPT !.phase = "running"]
    BY <1>4 DEF ChildAccepted
  <2> QED BY <1>2, <2>1, BeginsOK DEF Advance, StartsMovement
<1>5. ASSUME NEW status, SpinEnds(status)
      PROVE  Advance
  <2>1. at.child = "spin"
        /\ \E n \in {SpinFailed, SpinDone} : at' = [n EXCEPT !.child = "none"]
    BY <1>5 DEF SpinEnds, ChildReturned, Ended
  <2>2. Proceeds(SpinDone) /\ Proceeds(SpinFailed)
    BY <1>2, <2>1, SpinEndingsOK DEF Spinning
  <2> QED BY <1>2, <2>1, <2>2, ChildLeads
<1>6. ASSUME NEW status, DriveEnds(status)
      PROVE  Advance
  <2>1. PICK z \in Zones : \E n \in DriveNext(status, z) :
          at' = [n EXCEPT !.child = "none"]
    BY <1>6 DEF DriveEnds, Ended
  <2>2. at.phase = "running" /\ at.child = "drive"
    BY <1>6 DEF DriveEnds, ChildReturned
  <2> QED BY <1>2, <2>1, <2>2, DriveNextOK, ChildLeads
<1>7. ASSUME NEW status, MicroReverseEnds(status)
      PROVE  Advance
  <2>1. at.phase = "running" /\ at.child = "backup" /\ at.caller # "none"
    BY <1>7 DEF MicroReverseEnds, ChildReturned
  <2>2. \E n \in {Fail} \cup (IF Canceled THEN {}
                                  ELSE {MoveDone, Terminal(at.caller, 1)}) :
          at' = [n EXCEPT !.child = "none"]
    <3>1. PICK z \in Zones :
            LET inside == ~Canceled /\ z \in {"strict", "aligned"} IN
            Ended(CASE inside -> {MoveDone}
                    [] ~inside /\ ~Canceled /\ z = "near" /\ status = "succeeded"
                         -> {Fail, Terminal(at.caller, 1)}
                    [] OTHER -> {Fail})
      BY <1>7 DEF MicroReverseEnds
    <3>2. CASE Canceled
      BY <3>1, <3>2 DEF Ended
    <3>3. CASE ~Canceled
      BY <3>1, <3>3 DEF Ended
    <3> QED BY <3>2, <3>3
  <2>3. /\ at.caller \in {"clearance", "approach", "correction"}
        /\ at.caller = "correction" => at.cycle < Cycles
    BY <2>1 DEF CursorOK, Cursor
  <2>4. Proceeds(MoveDone) /\ Proceeds(Terminal(at.caller, 1))
    BY <1>2, <2>1, <2>3, MoveDoneOK, TerminalOK
  <2> QED BY <1>1, <1>2, <2>2, <2>4, ChildLeads
<1>8. ASSUME NEW status, DirectReverseEnds(status) \/ RouteEnds(status)
      PROVE  Advance
  <2>1. \E n \in {Fail} \cup (IF Canceled THEN {}
                              ELSE {Converge(0), Terminal("approach", 1)}) :
          at' = [n EXCEPT !.child = "none"]
    <3>1. CASE DirectReverseEnds(status)
      BY <3>1 DEF DirectReverseEnds, Ended
    <3>2. CASE RouteEnds(status)
      <4>1. CASE Canceled
        BY <3>2, <4>1 DEF RouteEnds, Ended
      <4>2. CASE ~Canceled
        BY <3>2, <4>2 DEF RouteEnds, Ended
      <4> QED BY <4>1, <4>2
    <3> QED BY <1>8, <3>1, <3>2
  <2>2. Proceeds(Converge(0))
    <3>1. 0 \in 0 .. Cycles
      BY Limits
    <3> QED BY <1>2, <3>1, ConvergeOK
  <2>3. Proceeds(Terminal("approach", 1))
    BY <1>2, TerminalOK
  <2> QED BY <1>1, <1>2, <2>1, <2>2, <2>3, ChildLeads
<1> QED BY <1>3, <1>4, <1>5, <1>6, <1>7, <1>8 DEF ChildAnswers, ChildEnds

(* What a step does to where execute() stands and to the goals: a goal is   *)
(* accepted, starts or ends, execute() goes on, or neither changes.         *)
LEMMA CursorStep ==
    ASSUME CursorOK(at), [Next]_vars
    PROVE  \/ OnGoal \/ Execute \/ Finish
           \/ Advance /\ UNCHANGED goalVars
           \/ at' = at /\ UNCHANGED goalVars
<1>1. CASE Coroutine
  <2>1. Execute \/ Finish \/ Advance
    BY <1>1, RouteAdvances, CorrectionAdvances, HeadingAdvances, SpinAdvances
       DEF Coroutine
  <2>2. Execute \/ Finish \/ UNCHANGED goalVars
    BY <1>1 DEF Coroutine, ChooseRoute, TurnClearance, TurnCleared, SendRoute,
                SendDirectReverse, TerminalForward, FinalPositionMicroReverse,
                ConvergeFinalPose, FinalAlignment, AlignmentFailed,
                ConfirmFinalPose, MapSpinBegins, MapSpinEnds, SendSpin, Moves
  <2> QED BY <2>1, <2>2
<1>2. CASE ChildAnswers
  <2>1. UNCHANGED goalVars
    BY <1>2 DEF ChildAnswers, ChildRejected, ChildAccepted, ChildEnds, SpinEnds,
                DriveEnds, MicroReverseEnds, DirectReverseEnds, RouteEnds,
                ChildReturned
  <2> QED BY <1>2, <2>1, ChildAdvances
<1>3. CASE Callbacks \/ Leases
  BY <1>3 DEF Callbacks, OnCancel, CancelAccepted, RelayFeedback,
              RelayDriveFeedback, RelayLateFeedback, CheckPersistentMotionBlock,
              BlockTimeoutPasses, OnMotionStatus, OnMotionArmed, Leases, ReadLease,
              PublishLease
<1>4. CASE UNCHANGED vars
  BY <1>4 DEF vars
<1> QED BY <1>1, <1>2, <1>3, <1>4 DEF Next

LEMMA CursorKept ==
    ASSUME CursorOK(at), [Next]_vars
    PROVE  CursorOK(at')
<1>1. CASE OnGoal \/ Finish
  BY <1>1, NowhereOK DEF OnGoal, Finish
<1>2. CASE Execute
  <2>1. at' = [at EXCEPT !.phase = "start"] /\ at.result = "none"
    BY <1>2 DEF Execute, CursorOK
  <2> QED BY <2>1, BeginsOK
<1> QED BY <1>1, <1>2, CursorStep DEF Advance
-----------------------------------------------------------------------------
(* The goals: one is reserved, or one executes, or none is accepted. *)
GoalInv ==
    /\ active \in BOOLEAN /\ reserved \in BOOLEAN
    /\ active <=> at.phase \notin {"idle", "reserved"}
    /\ reserved <=> at.phase = "reserved"
    /\ accepted = IF active \/ reserved THEN 1 ELSE 0

CursorInv == CursorOK(at) /\ GoalInv

LEMMA CursorInvInit == Init => CursorInv
BY NowhereOK DEF Init, CursorInv, GoalInv

LEMMA CursorInvStep == CursorInv /\ [Next]_vars => CursorInv'
<1> SUFFICES ASSUME CursorOK(at), GoalInv, [Next]_vars
             PROVE  CursorOK(at') /\ GoalInv'
  BY DEF CursorInv
<1>1. CursorOK(at')
  BY CursorKept
<1>2. CASE OnGoal
  BY <1>1, <1>2, NowhereOK DEF OnGoal, Exclusive, GoalInv
<1>3. CASE Execute
  <2>1. at' = [at EXCEPT !.phase = "start"] /\ at.result = "none"
    BY <1>3 DEF Execute, CursorOK
  <2>2. at'.phase = "start"
    BY <2>1, BeginsOK
  <2> QED BY <1>1, <1>3, <2>2 DEF Execute, GoalInv
<1>4. CASE Finish
  <2>1. at.phase = "finish" /\ at' = Nowhere /\ active' = FALSE /\ reserved' = FALSE
        /\ accepted' = accepted - 1
    BY <1>4 DEF Finish
  <2>2. accepted = 1
    BY <2>1 DEF GoalInv
  <2>3. at'.phase = "idle" /\ accepted' = 0
    BY <2>1, <2>2, NowhereOK
  <2>4. GoalInv'
    BY <2>1, <2>3 DEF GoalInv
  <2> QED BY <1>1, <2>4
<1>5. CASE Advance /\ UNCHANGED goalVars
  <2>1. at.phase \notin {"idle", "reserved"} /\ at'.phase \notin {"idle", "reserved"}
    BY <1>5 DEF Advance, GoesOn, Proceeds, Resting, StartsMovement, Confirms, Underway
  <2> QED BY <1>1, <1>5, <2>1 DEF GoalInv, goalVars
<1>6. CASE at' = at /\ UNCHANGED goalVars
  BY <1>1, <1>6 DEF GoalInv, goalVars
<1> QED BY <1>1, <1>2, <1>3, <1>4, <1>5, <1>6, CursorStep

THEOREM CursorInvHolds == Spec => []CursorInv
BY CursorInvInit, CursorInvStep, PTL DEF Spec

(* on_goal accepts a goal only when none is reserved or executing: no       *)
(* interleaving of its reservation with the start and the end of execute()  *)
(* lets two accepted goals be unfinished at once.                           *)
THEOREM GoalsAreExclusive == Spec => []ExclusiveGoal
<1>1. CursorInv => ExclusiveGoal
  BY DEF CursorInv, GoalInv, ExclusiveGoal
<1> QED BY <1>1, CursorInvHolds, PTL
-----------------------------------------------------------------------------
(* Type correctness.                                                        *)

LEMMA AuthorizedOK ==
    ASSUME TypeOK, NEW authorized \in BOOLEAN, SetMotionAuthorized(authorized)
    PROVE  auth' \in BOOLEAN /\ lease' \in BOOLEAN /\ inflight' \subseteq BOOLEAN
BY DEF TypeOK, SetMotionAuthorized, LeaseRead

(* The part of TypeOK that does not follow from CursorInv. *)
SharedOK ==
    /\ goals \in 0 .. MaxGoals
    /\ cancel \in {"no", "called", "requested"}
    /\ abort \in BOOLEAN /\ abort_kind \in BlockKinds \cup {NoBlock}
    /\ handle \in [Children -> {"none", "held", "ended"}]
    /\ child_cancel \in BOOLEAN /\ drive_stop \in BOOLEAN /\ handoff \in BOOLEAN
    /\ auth \in BOOLEAN /\ armed \in BOOLEAN /\ ready \in BOOLEAN
    /\ block \in BlockKinds \cup {NoBlock} /\ block_due \in BOOLEAN
    /\ lease \in BOOLEAN /\ inflight \subseteq BOOLEAN

LEMMA TypeIsShared == CursorInv => (TypeOK <=> SharedOK)
BY DEF CursorInv, CursorOK, GoalInv, TypeOK, SharedOK

LEMMA CoroutineTypes ==
    ASSUME TypeOK, SharedOK, Coroutine
    PROVE  SharedOK'
<1>1. CASE Execute
  BY <1>1 DEF Execute, SharedOK, NoHandles
<1>2. CASE Finish
  BY <1>2 DEF Finish, SharedOK, NoHandles, abortVars, gateVars
<1>3. CASE MapSpinBegins
  <2>1. auth' \in BOOLEAN /\ lease' \in BOOLEAN /\ inflight' \subseteq BOOLEAN
    BY <1>3, AuthorizedOK DEF MapSpinBegins, SharedOK, leaseVars
  <2> QED BY <1>3, <2>1 DEF MapSpinBegins, SharedOK, goalVars, abortVars, childVars,
                            gateVars
<1>4. CASE MapSpinEnds
  <2>1. auth' \in BOOLEAN /\ lease' \in BOOLEAN /\ inflight' \subseteq BOOLEAN
    BY <1>4, AuthorizedOK DEF MapSpinEnds
  <2> QED BY <1>4, <2>1 DEF MapSpinEnds, SharedOK, goalVars, abortVars, childVars,
                            gateVars
<1>5. ASSUME NEW next, Moves(next)
      PROVE  SharedOK'
  BY <1>5 DEF Moves, SharedOK, goalVars, abortVars, childVars, gateVars, leaseVars
<1>6. CASE ChooseRoute \/ TurnClearance \/ TurnCleared \/ SendRoute \/ SendDirectReverse
  BY <1>5, <1>6 DEF ChooseRoute, TurnClearance, TurnCleared, SendRoute,
                    SendDirectReverse
<1>7. CASE TerminalForward \/ FinalPositionMicroReverse \/ ConvergeFinalPose
  BY <1>5, <1>7 DEF TerminalForward, FinalPositionMicroReverse, ConvergeFinalPose
<1>8. CASE FinalAlignment \/ AlignmentFailed \/ SendSpin
             \/ \E good \in BOOLEAN : ConfirmFinalPose(good)
  BY <1>5, <1>8 DEF FinalAlignment, AlignmentFailed, SendSpin, ConfirmFinalPose
<1> QED BY <1>1, <1>2, <1>3, <1>4, <1>6, <1>7, <1>8 DEF Coroutine

LEMMA ChildTypes ==
    ASSUME TypeOK, SharedOK, ChildAnswers
    PROVE  SharedOK'
<1>1. CASE ChildRejected
  BY <1>1 DEF ChildRejected, SharedOK, goalVars, abortVars, childVars, gateVars,
              leaseVars
<1>2. CASE ChildAccepted
  <2>1. auth' \in BOOLEAN /\ lease' \in BOOLEAN /\ inflight' \subseteq BOOLEAN
    BY <1>2, AuthorizedOK DEF ChildAccepted
  <2>2. handle' \in [Children -> {"none", "held", "ended"}] /\ child_cancel' \in BOOLEAN
    BY <1>2 DEF ChildAccepted, SharedOK
  <2> QED BY <1>2, <2>1, <2>2 DEF ChildAccepted, SharedOK, goalVars, abortVars, gateVars
<1>3. ASSUME NEW c, ChildReturned(c)
      PROVE  /\ auth' \in BOOLEAN /\ lease' \in BOOLEAN /\ inflight' \subseteq BOOLEAN
             /\ child_cancel' \in BOOLEAN
             /\ UNCHANGED <<goals, cancel, armed, ready>>
  BY <1>3, AuthorizedOK DEF ChildReturned, goalVars
<1>4. ASSUME NEW status, SpinEnds(status) \/ DirectReverseEnds(status)
      PROVE  SharedOK'
  BY <1>3, <1>4 DEF SpinEnds, DirectReverseEnds, SharedOK, abortVars
<1>5. ASSUME NEW status, DriveEnds(status)
      PROVE  SharedOK'
  BY <1>3, <1>5 DEF DriveEnds, SharedOK, abortVars
<1>6. ASSUME NEW status, MicroReverseEnds(status)
      PROVE  SharedOK'
  BY <1>3, <1>6 DEF MicroReverseEnds, SharedOK, abortVars
<1>7. ASSUME NEW status, RouteEnds(status)
      PROVE  SharedOK'
  BY <1>3, <1>7 DEF RouteEnds, SharedOK, abortVars
<1> QED BY <1>1, <1>2, <1>4, <1>5, <1>6, <1>7 DEF ChildAnswers, ChildEnds

LEMMA CallbackTypes ==
    ASSUME TypeOK, SharedOK, Callbacks \/ Leases
    PROVE  SharedOK'
<1>1. CASE OnGoal
  <2>1. auth' \in BOOLEAN /\ lease' \in BOOLEAN /\ inflight' \subseteq BOOLEAN
    BY <1>1, AuthorizedOK DEF OnGoal
  <2>2. goals' \in 0 .. MaxGoals
    BY <1>1, AdapterAssumption DEF OnGoal, SharedOK
  <2> QED BY <1>1, <2>1, <2>2 DEF OnGoal, SharedOK, abortVars, childVars, gateVars
<1>2. CASE OnCancel \/ CancelAccepted
  <2>1. auth' \in BOOLEAN /\ lease' \in BOOLEAN /\ inflight' \subseteq BOOLEAN
    BY <1>2, AuthorizedOK DEF OnCancel, CancelAccepted, SharedOK, leaseVars
  <2>2. child_cancel' \in BOOLEAN
    BY <1>2 DEF OnCancel, CancelAccepted, CancelChild, childVars, SharedOK
  <2> QED BY <1>2, <2>1, <2>2 DEF OnCancel, CancelAccepted, SharedOK, goalVars, abortVars,
                            childVars, gateVars
<1>3. ASSUME NEW near \in BOOLEAN, NEW stuck \in BOOLEAN, RelayFeedback(near, stuck)
      PROVE  SharedOK'
  <2>1. auth' \in BOOLEAN /\ lease' \in BOOLEAN /\ inflight' \subseteq BOOLEAN
    BY <1>3, AuthorizedOK DEF RelayFeedback
  <2>2. /\ handoff' \in BOOLEAN /\ abort' \in BOOLEAN /\ child_cancel' \in BOOLEAN
        /\ abort_kind' \in BlockKinds \cup {NoBlock}
    BY <1>3 DEF RelayFeedback, SharedOK, BlockKinds
  <2> QED BY <1>3, <2>1, <2>2 DEF RelayFeedback, SharedOK, goalVars, gateVars
<1>4. ASSUME NEW stop \in BOOLEAN, RelayDriveFeedback(stop)
      PROVE  SharedOK'
  <2>1. auth' \in BOOLEAN /\ lease' \in BOOLEAN /\ inflight' \subseteq BOOLEAN
    BY <1>4, AuthorizedOK DEF RelayDriveFeedback
  <2>2. drive_stop' \in BOOLEAN /\ child_cancel' \in BOOLEAN
    BY <1>4 DEF RelayDriveFeedback, SharedOK
  <2> QED BY <1>4, <2>1, <2>2 DEF RelayDriveFeedback, SharedOK, goalVars, abortVars,
                                  gateVars
<1>5. CASE RelayLateFeedback
  <2>1. auth' \in BOOLEAN /\ lease' \in BOOLEAN /\ inflight' \subseteq BOOLEAN
    BY <1>5, AuthorizedOK DEF RelayLateFeedback
  <2> QED BY <1>5, <2>1 DEF RelayLateFeedback, SharedOK, goalVars, abortVars,
                            childVars, gateVars
<1>6. CASE CheckPersistentMotionBlock
  <2>1. child_cancel' \in BOOLEAN
    BY <1>6 DEF CheckPersistentMotionBlock, SharedOK
  <2> QED BY <1>6, <2>1 DEF CheckPersistentMotionBlock, SharedOK, goalVars, gateVars,
                            leaseVars
<1>7. CASE BlockTimeoutPasses
  BY <1>7 DEF BlockTimeoutPasses, SharedOK, goalVars, abortVars, childVars, leaseVars
<1>8. ASSUME NEW kind \in BlockKinds \cup {NoBlock}, NEW r \in BOOLEAN,
             OnMotionStatus(kind, r)
      PROVE  SharedOK'
  BY <1>8 DEF OnMotionStatus, SharedOK, goalVars, abortVars, childVars, leaseVars
<1>9. ASSUME NEW isArmed \in BOOLEAN, OnMotionArmed(isArmed)
      PROVE  SharedOK'
  <2>1. /\ abort' \in BOOLEAN /\ child_cancel' \in BOOLEAN
        /\ abort_kind' \in BlockKinds \cup {NoBlock}
    BY <1>9 DEF OnMotionArmed, SharedOK, CancelChild, abortVars, BlockKinds
  <2> QED BY <1>9, <2>1 DEF OnMotionArmed, SharedOK, goalVars, leaseVars
<1>10. CASE Leases
  <2>1. lease' \in BOOLEAN /\ inflight' \subseteq BOOLEAN
    BY <1>10 DEF Leases, ReadLease, LeaseRead, PublishLease, TypeOK
  <2> QED BY <1>10, <2>1 DEF Leases, ReadLease, PublishLease, SharedOK, goalVars,
                             abortVars, childVars, gateVars
<1> QED BY <1>1, <1>2, <1>3, <1>4, <1>5, <1>6, <1>7, <1>8, <1>9, <1>10 DEF Callbacks

(* No retry, recheck, correction cycle, heading step or sample counter      *)
(* passes its limit, for all limits, and every field keeps its values.      *)
THEOREM AdapterTypeCorrect == Spec => []TypeOK
<1>1. Init => SharedOK
  <2>1. 0 \in 0 .. MaxGoals
    BY AdapterAssumption
  <2>2. NoHandles \in [Children -> {"none", "held", "ended"}]
    BY DEF NoHandles
  <2> QED BY <2>1, <2>2 DEF Init, SharedOK
<1>2. CursorInv /\ TypeOK /\ [Next]_vars => TypeOK'
  <2> SUFFICES ASSUME CursorInv, TypeOK, [Next]_vars
               PROVE  TypeOK'
    OBVIOUS
  <2>1. SharedOK /\ CursorInv'
    BY TypeIsShared, CursorInvStep
  <2>2. CASE UNCHANGED vars
    BY <2>2 DEF TypeOK, vars, goalVars, abortVars, childVars, gateVars, leaseVars
  <2>3. CASE Next
    <3>1. SharedOK'
      BY <2>1, <2>3, CoroutineTypes, ChildTypes, CallbackTypes DEF Next
    <3> QED BY <2>1, <3>1, TypeIsShared, PTL
  <2> QED BY <2>2, <2>3
<1>3. Init => TypeOK
  BY <1>1, CursorInvInit, TypeIsShared
<1> QED BY <1>2, <1>3, CursorInvHolds, PTL DEF Spec
-----------------------------------------------------------------------------
(* The observers of AdapterChecks.  While the final pose is confirmed, at   *)
(* least as many samples are counted as execute() has taken.                *)
ConfirmInv ==
    /\ steady \in Nat
    /\ at.phase = "confirm" => steady >= at.sample
    /\ at.result = "succeeded" => steady >= Confirmations

(* A movement that was started after a cancel is a child other than a spin, *)
(* which ends the goal: no further one is started.                          *)
LateInv ==
    /\ late \in {0, 1}
    /\ late = 1 /\ Canceled =>
         \/ at.phase = "finish"
         \/ at.phase \in {"sending", "running"} /\ at.child # "spin"

ObserverInv == CursorInv /\ ConfirmInv /\ LateInv

LEMMA ConfirmInvStep ==
    ASSUME CursorInv, CursorInv', ConfirmInv, [ChecksNext]_checkVars
    PROVE  ConfirmInv'
<1>1. CASE UNCHANGED checkVars
  BY <1>1 DEF checkVars, vars, ConfirmInv
<1>2. CASE ChecksNext
  <2>1. /\ [Next]_vars /\ CursorOK(at)
        /\ steady' = IF Moving(at) \/ Moving(at') \/ at'.phase = "heading" THEN 0
                     ELSE IF at.phase = "confirm"
                             /\ (at'.sample > at.sample \/ at'.phase = "finish")
                          THEN steady + 1
                     ELSE IF at'.phase = "idle" THEN 0 ELSE steady
    BY <1>2 DEF ChecksNext, CursorInv
  <2>2. steady' \in Nat
    BY <2>1 DEF ConfirmInv
  <2>3. at.sample \in Nat /\ at'.sample \in Nat /\ Confirmations \in Nat \ {0}
    BY Limits DEF CursorInv, CursorOK, Cursor
  <2>4. CASE at'.phase # "confirm" /\ at'.result # "succeeded"
    BY <2>2, <2>4 DEF ConfirmInv
  <2>5. CASE OnGoal \/ Execute \/ Finish
    <3>1. at'.phase # "confirm" /\ at'.result # "succeeded"
      <4>1. CASE OnGoal \/ Finish
        BY <4>1, NowhereOK DEF OnGoal, Finish
      <4>2. CASE Execute
        <5>1. at' = [at EXCEPT !.phase = "start"] /\ at.result = "none"
          BY <4>2, <2>1 DEF Execute, CursorOK
        <5> QED BY <2>1, <5>1, BeginsOK
      <4> QED BY <2>5, <4>1, <4>2
    <3> QED BY <2>4, <3>1
  <2>6. CASE Advance
    <3>1. CASE GoesOn \/ StartsMovement
      <4>1. at'.phase # "confirm" /\ at'.result # "succeeded"
        BY <3>1 DEF GoesOn, StartsMovement, Proceeds, Resting
      <4> QED BY <2>4, <4>1
    <3>2. CASE Confirms
      BY <2>1, <2>2, <2>3, <3>2 DEF Confirms, ConfirmInv, Moving
    <3> QED BY <2>6, <3>1, <3>2 DEF Advance
  <2>7. CASE at' = at
    <3>1. at.phase = "confirm" \/ at.result = "succeeded"
            => ~Moving(at) /\ at.phase # "heading" /\ at.phase # "idle"
      BY <2>1 DEF CursorOK, Moving
    <3>2. at.result = "succeeded" => at.phase # "confirm"
      BY <2>1 DEF CursorOK
    <3> QED BY <2>1, <2>2, <2>3, <2>7, <3>1, <3>2 DEF ConfirmInv
  <2> QED BY <2>1, <2>5, <2>6, <2>7, CursorStep
<1> QED BY <1>1, <1>2

LEMMA LateInvStep ==
    ASSUME CursorInv, LateInv, [ChecksNext]_checkVars
    PROVE  LateInv'
<1>1. CASE UNCHANGED checkVars
  BY <1>1 DEF checkVars, vars, LateInv, Canceled
<1>2. CASE ChecksNext
  <2>1. /\ [Next]_vars /\ CursorOK(at) /\ GoalInv
        /\ late' = IF ~Canceled THEN 0
                   ELSE IF Moving(at') /\ ~Moving(at) /\ late < 2 THEN late + 1
                   ELSE late
    BY <1>2 DEF ChecksNext, CursorInv
  <2>2. CASE ~Canceled
    BY <2>1, <2>2 DEF LateInv
  <2>3. ASSUME Canceled, at' = at
        PROVE  LateInv'
    BY <2>1, <2>3 DEF LateInv, Canceled
  <2>4. ASSUME Canceled, OnGoal \/ Execute
        PROVE  LateInv'
    <3>1. at.phase \in {"idle", "reserved"}
      BY <2>1, <2>4 DEF OnGoal, Execute, Exclusive, GoalInv
    <3>2. ~Moving(at')
      <4>1. CASE OnGoal
        BY <4>1, NowhereOK DEF OnGoal, Moving
      <4>2. CASE Execute
        <5>1. at' = [at EXCEPT !.phase = "start"] /\ at.result = "none"
          BY <4>2, <2>1 DEF Execute, CursorOK
        <5> QED BY <2>1, <5>1, BeginsOK DEF Moving
      <4> QED BY <2>4, <4>1, <4>2
    <3>3. late' = 0
      BY <2>1, <2>4, <3>1, <3>2 DEF LateInv
    <3> QED BY <3>3 DEF LateInv
  <2>5. ASSUME Canceled, Finish
        PROVE  LateInv'
    <3>1. ~Moving(at') /\ ~Canceled'
      BY <2>5, NowhereOK DEF Finish, Moving, Canceled
    <3> QED BY <2>1, <2>5, <3>1 DEF LateInv
  <2>6. ASSUME Canceled, Advance
        PROVE  LateInv'
    <3>1. at.phase \notin {"idle", "reserved", "finish"}
      BY <2>6 DEF Advance, Underway
    <3>2. CASE GoesOn
      <4>1. ~Moving(at')
        BY <3>2 DEF GoesOn, Proceeds, Resting, Moving
      <4> QED BY <2>1, <2>6, <3>1, <3>2, <4>1 DEF LateInv, GoesOn
    <3>3. CASE StartsMovement
      BY <2>1, <2>6, <3>1, <3>3 DEF LateInv, StartsMovement, Moving, Resting
    <3>4. CASE Confirms
      BY <2>1, <2>6, <3>4 DEF LateInv, Confirms, Moving
    <3> QED BY <2>6, <3>2, <3>3, <3>4 DEF Advance
  <2> QED BY <2>1, <2>2, <2>3, <2>4, <2>5, <2>6, CursorStep
<1> QED BY <1>1, <1>2

THEOREM ObserverInvHolds == ChecksSpec => []ObserverInv
<1>1. ChecksInit => ObserverInv
  BY CursorInvInit, NowhereOK DEF ChecksInit, Init, ObserverInv, ConfirmInv, LateInv
<1>2. ObserverInv /\ [ChecksNext]_checkVars => ObserverInv'
  <2> SUFFICES ASSUME CursorInv, ConfirmInv, LateInv, [ChecksNext]_checkVars
               PROVE  CursorInv' /\ ConfirmInv' /\ LateInv'
    BY DEF ObserverInv
  <2>1. [Next]_vars
    BY DEF ChecksNext, checkVars
  <2>2. CursorInv'
    BY <2>1, CursorInvStep
  <2> QED BY <2>2, ConfirmInvStep, LateInvStep
<1> QED BY <1>1, <1>2, PTL DEF ChecksSpec

(* Whatever a goal went through (route, reverse, correction, child abort),  *)
(* it succeeds only after as many measured poses in a row within tolerance  *)
(* as final_pose_confirmations asks for, with no movement among them.       *)
THEOREM SuccessIsConfirmedHolds == ChecksSpec => []SuccessIsConfirmed
<1>1. ObserverInv => SuccessIsConfirmed
  BY DEF ObserverInv, ConfirmInv, SuccessIsConfirmed
<1> QED BY <1>1, ObserverInvHolds, PTL

(* Whatever interleaving of on_cancel with execute() and its children, at   *)
(* most one more movement starts after the cancel was accepted.             *)
THEOREM CancelStartsAtMostOneMoreHolds == ChecksSpec => []CancelStartsAtMostOneMore
<1>1. ObserverInv => CancelStartsAtMostOneMore
  BY DEF ObserverInv, LateInv, CancelStartsAtMostOneMore
<1> QED BY <1>1, ObserverInvHolds, PTL
=============================================================================
