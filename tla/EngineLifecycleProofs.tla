------------------------ MODULE EngineLifecycleProofs ------------------------
(***************************************************************************)
(* One worker that has the checkpoint directory to itself comes up with the  *)
(* weights its manifest pins and spoils no good file, for every manifest,     *)
(* content of the directory, roll of the upstream and failure.  (With two    *)
(* workers it is false: see the run engine_race.)                            *)
(*                                                                         *)
(* A file that verify() has accepted is not written again, because a         *)
(* download is only begun, and moved into place, for a file that it has       *)
(* refused (Progress).                                                      *)
(***************************************************************************)
EXTENDS EngineLifecycleProps, TLAPS

Loading == {"look", "verify", "fetch", "install", "recheck", "import", "weights"}

Types ==
    /\ deploy \in SetUps
    /\ served \in [Names -> Versions]
    /\ cached \in [Names -> Versions \cup {"absent"}]
    /\ disk \in [Names -> Contents]
    /\ strays \in Nat /\ strays <= used.faults
    /\ wk \in [Workers -> Processes]
    /\ used \in [starts : [Workers -> Nat], rolls : 0 .. MaxRolls, faults : 0 .. MaxFaults]

\* What a worker is at agrees with its engine's state and has a file.
StepsOK ==
    \A w \in Workers :
        /\ (wk[w].pc = "serving") <=> (wk[w].state \in {"idle", "degraded"})
        /\ wk[w].pc \in Loading => wk[w].at \in 1 .. Len(Files)

NoMock == \A a \in answers : deploy.kind = "musetalk" => a[3] # "mock"

TypeInv == Types /\ StepsOK /\ NoMock

-----------------------------------------------------------------------------
LEMMA ConstantFacts ==
    /\ Len(Files) \in Nat /\ Len(Files) >= 1
    /\ \A i \in 1 .. Len(Files) : Files[i] \in Names
    /\ {"cut", "absent"} \subseteq Contents /\ Versions \subseteq Contents
    /\ MaxFaults \in Nat /\ MaxRolls \in Nat
    /\ NoWeights \in [Names -> Contents]
    /\ Down \in Processes
<1>1. Files \in Seq(STRING) /\ Files # <<>>
  BY EngineAssumption DEF EngineAssumption
<1>2. Len(Files) \in Nat /\ Len(Files) >= 1
  BY <1>1
<1>3. NoWeights \in [Names -> Contents]
  BY DEF NoWeights, Contents
<1>. QED
  BY <1>2, <1>3, EngineAssumption DEF EngineAssumption, Names, Contents, Down, Processes, Steps

\* The ways a worker's record changes.
LEMMA GotoEffect ==
    ASSUME wk \in [Workers -> Processes], NEW w \in Workers, NEW pc \in Steps, Goto(w, pc)
    PROVE  /\ wk' \in [Workers -> Processes]
           /\ wk'[w].pc = pc /\ wk'[w].at = wk[w].at /\ wk'[w].state = wk[w].state
           /\ wk'[w].weights = wk[w].weights
           /\ \A v \in Workers : v # w => wk'[v] = wk[v]
  BY DEF Goto, Processes

LEMMA FailEffect ==
    ASSUME wk \in [Workers -> Processes], NEW w \in Workers, Fail(w)
    PROVE  /\ wk' \in [Workers -> Processes]
           /\ wk'[w].pc = "serving" /\ wk'[w].state = "degraded"
           /\ \A v \in Workers : v # w => wk'[v] = wk[v]
<1>. DEFINE p == [wk[w] EXCEPT !.pc = "serving", !.state = "degraded", !.temp = "absent"]
<1>1. p \in Processes /\ p.pc = "serving" /\ p.state = "degraded"
  BY DEF Processes, Steps, Contents
<1>2. wk' = [wk EXCEPT ![w] = p]
  BY Zenon DEF Fail
<1>. QED
  BY <1>1, <1>2

LEMMA FetchedEffect ==
    ASSUME wk \in [Workers -> Processes], NEW w \in Workers, NEW content \in Contents,
           Fetched(w, content)
    PROVE  /\ wk' \in [Workers -> Processes]
           /\ wk'[w].pc = "install" /\ wk'[w].at = wk[w].at /\ wk'[w].state = wk[w].state
           /\ \A v \in Workers : v # w => wk'[v] = wk[v]
  BY DEF Fetched, Processes, Steps

LEMMA NextFileEffect ==
    ASSUME wk \in [Workers -> Processes], NEW w \in Workers, wk[w].at \in 1 .. Len(Files),
           NextFile(w)
    PROVE  /\ wk' \in [Workers -> Processes]
           /\ wk'[w].state = wk[w].state
           /\ \/ wk'[w].pc = "look" /\ wk'[w].at = wk[w].at + 1 /\ wk[w].at < Len(Files)
              \/ wk'[w].pc = "import" /\ wk'[w].at = 1 /\ wk[w].at = Len(Files)
           /\ \A v \in Workers : v # w => wk'[v] = wk[v]
<1>1. CASE wk[w].at < Len(Files)
  <2>1. wk' = [wk EXCEPT ![w].pc = "look", ![w].at = wk[w].at + 1]
    BY <1>1 DEF NextFile
  <2>2. wk[w].at + 1 \in 0 .. Len(Files)
    BY <1>1, ConstantFacts
  <2>. QED
    BY <1>1, <2>1, <2>2 DEF Processes, Steps
<1>2. CASE ~(wk[w].at < Len(Files))
  <2>1. wk' = [wk EXCEPT ![w].pc = "import", ![w].at = 1] /\ wk[w].at = Len(Files)
    BY <1>2, ConstantFacts DEF NextFile
  <2>2. 1 \in 0 .. Len(Files)
    BY ConstantFacts
  <2>. QED
    BY <2>1, <2>2 DEF Processes, Steps
<1>. QED
  BY <1>1, <1>2

LEMMA InstalledEffect ==
    ASSUME wk \in [Workers -> Processes], NEW w \in Workers,
           wk' = [wk EXCEPT ![w].pc = "recheck", ![w].temp = "absent"]
    PROVE  /\ wk' \in [Workers -> Processes]
           /\ wk'[w].pc = "recheck" /\ wk'[w].at = wk[w].at /\ wk'[w].state = wk[w].state
           /\ \A v \in Workers : v # w => wk'[v] = wk[v]
  BY DEF Processes, Steps, Contents

LEMMA StartEffect ==
    ASSUME wk \in [Workers -> Processes], NEW w \in Workers, Start(w)
    PROVE  /\ wk' \in [Workers -> Processes]
           /\ \/ wk'[w].pc = "look" /\ wk'[w].at = 1 /\ wk'[w].state = "loading"
              \/ wk'[w].pc = "serving" /\ wk'[w].state = "degraded"
           /\ \A v \in Workers : v # w => wk'[v] = wk[v]
<1>. DEFINE p == [wk[w] EXCEPT !.pc = "look", !.at = 1, !.state = "loading"]
            q == [wk[w] EXCEPT !.pc = "serving", !.state = "degraded"]
<1>1. p \in Processes /\ p.pc = "look" /\ p.at = 1 /\ p.state = "loading"
  <2>1. 1 \in 0 .. Len(Files)
    BY ConstantFacts
  <2>. QED
    BY <2>1 DEF Processes, Steps
<1>2. q \in Processes /\ q.pc = "serving" /\ q.state = "degraded"
  BY DEF Processes, Steps
<1>3. wk' = [wk EXCEPT ![w] = p] \/ wk' = [wk EXCEPT ![w] = q]
  BY DEF Start
<1>. QED
  BY <1>1, <1>2, <1>3

LEMMA ReadyEffect ==
    ASSUME wk \in [Workers -> Processes], NEW w \in Workers,
           wk' = [wk EXCEPT ![w] = [@ EXCEPT !.pc = "serving", !.state = "idle"]]
    PROVE  /\ wk' \in [Workers -> Processes]
           /\ wk'[w].pc = "serving" /\ wk'[w].state = "idle"
           /\ \A v \in Workers : v # w => wk'[v] = wk[v]
<1>. DEFINE p == [wk[w] EXCEPT !.pc = "serving", !.state = "idle"]
<1>1. p \in Processes /\ p.pc = "serving" /\ p.state = "idle"
  BY DEF Processes, Steps
<1>2. wk' = [wk EXCEPT ![w] = p]
  OBVIOUS
<1>. QED
  BY <1>1, <1>2

LEMMA WeightsEffect ==
    ASSUME wk \in [Workers -> Processes], NEW w \in Workers, wk[w].at \in 1 .. Len(Files),
           disk \in [Names -> Contents],
           wk' = [wk EXCEPT ![w] =
                     IF @.at < Len(Files)
                     THEN [@ EXCEPT !.weights[File(w)] = disk[File(w)], !.at = wk[w].at + 1]
                     ELSE [@ EXCEPT !.weights[File(w)] = disk[File(w)], !.pc = "serving",
                                    !.state = "idle"]]
    PROVE  /\ wk' \in [Workers -> Processes]
           /\ wk'[w].weights = [wk[w].weights EXCEPT ![File(w)] = disk[File(w)]]
           /\ \/ /\ wk[w].at < Len(Files) /\ wk'[w].at = wk[w].at + 1
                 /\ wk'[w].pc = wk[w].pc /\ wk'[w].state = wk[w].state
              \/ wk[w].at = Len(Files) /\ wk'[w].pc = "serving" /\ wk'[w].state = "idle"
           /\ \A v \in Workers : v # w => wk'[v] = wk[v]
<1>. DEFINE ws == [wk[w].weights EXCEPT ![File(w)] = disk[File(w)]]
            p == [wk[w] EXCEPT !.weights = ws, !.at = wk[w].at + 1]
            q == [wk[w] EXCEPT !.weights = ws, !.pc = "serving", !.state = "idle"]
<1>1. File(w) \in Names
  BY ConstantFacts DEF File
<1>2. ws \in [Names -> Contents]
  BY <1>1 DEF Processes
<1>3. CASE wk[w].at < Len(Files)
  <2>1. wk' = [wk EXCEPT ![w] = p]
    <3>1. p = [wk[w] EXCEPT !.weights[File(w)] = disk[File(w)], !.at = wk[w].at + 1]
      BY DEF Processes
    <3>. HIDE DEF p
    <3>. QED
      BY <1>3, <3>1
  <2>2. /\ p \in Processes /\ p.weights = ws /\ p.at = wk[w].at + 1
        /\ p.pc = wk[w].pc /\ p.state = wk[w].state
    <3>1. wk[w].at + 1 \in 0 .. Len(Files)
      BY <1>3, ConstantFacts
    <3>. HIDE DEF ws
    <3>. QED
      BY <1>2, <3>1 DEF Processes
  <2>. HIDE DEF p
  <2>. QED
    BY <1>3, <2>1, <2>2
<1>4. CASE ~(wk[w].at < Len(Files))
  <2>1. wk' = [wk EXCEPT ![w] = q] /\ wk[w].at = Len(Files)
    BY <1>4, ConstantFacts
  <2>2. q \in Processes /\ q.weights = ws /\ q.pc = "serving" /\ q.state = "idle"
    <3>. HIDE DEF ws
    <3>. QED
      BY <1>2 DEF Processes, Steps
  <2>. HIDE DEF q
  <2>. QED
    BY <2>1, <2>2
<1>. QED
  BY <1>3, <1>4

-----------------------------------------------------------------------------
(* Types.                                                                   *)

LEMMA FaultEffect ==
    ASSUME Types, Fault
    PROVE  /\ used' \in [starts : [Workers -> Nat], rolls : 0 .. MaxRolls,
                         faults : 0 .. MaxFaults]
           /\ used'.faults = used.faults + 1
<1>1. used \in [starts : [Workers -> Nat], rolls : 0 .. MaxRolls, faults : 0 .. MaxFaults]
  BY DEF Types
<1>2. used.faults + 1 \in 0 .. MaxFaults
  BY <1>1, ConstantFacts DEF Fault
<1>3. used' = [used EXCEPT !.faults = used.faults + 1]
  BY DEF Fault
<1>. QED
  BY <1>1, <1>2, <1>3

LEMMA TypeInvInit == Init => TypeInv
<1>. SUFFICES ASSUME Init PROVE TypeInv
  OBVIOUS
<1>1. deploy \in SetUps /\ served \in [Names -> Versions] /\ disk \in [Names -> Contents]
  BY EngineAssumption DEF Init, EngineAssumption
<1>2. wk \in [Workers -> Processes]
  BY ConstantFacts DEF Init
<1>3. used \in [starts : [Workers -> Nat], rolls : 0 .. MaxRolls, faults : 0 .. MaxFaults]
      /\ strays \in Nat /\ strays <= used.faults
  BY ConstantFacts DEF Init
<1>4. cached \in [Names -> Versions \cup {"absent"}]
  BY DEF Init
<1>5. StepsOK
  BY DEF Init, StepsOK, Down, Loading
<1>6. NoMock
  BY DEF Init, NoMock
<1>. QED
  BY <1>1, <1>2, <1>3, <1>4, <1>5, <1>6 DEF TypeInv, Types

\* A worker that goes on, serves, or is down.
LEMMA StepsOn ==
    ASSUME StepsOK, NEW w \in Workers,
           \A v \in Workers : v # w => wk'[v] = wk[v],
           (wk'[w].pc = "serving") <=> (wk'[w].state \in {"idle", "degraded"}),
           wk'[w].pc \in Loading => wk'[w].at \in 1 .. Len(Files)
    PROVE  StepsOK'
  BY DEF StepsOK

\* load()
LEMMA LoadTypeInv ==
    ASSUME TypeInv, NEW w \in Workers, Start(w) \/ LoadStep(w)
    PROVE  TypeInv'
<1>1. /\ wk \in [Workers -> Processes] /\ disk \in [Names -> Contents] /\ Types /\ StepsOK
      /\ served \in [Names -> Versions] /\ cached \in [Names -> Versions \cup {"absent"}]
  BY DEF TypeInv, Types
<1>2. ASSUME NEW pc \in Loading, Goto(w, pc), wk[w].pc \in Loading
      PROVE  wk' \in [Workers -> Processes] /\ StepsOK'
  <2>1. pc \in Steps /\ pc # "serving" /\ wk[w].pc # "serving"
    BY <1>2 DEF Loading, Steps
  <2>2. /\ wk' \in [Workers -> Processes]
        /\ wk'[w].pc = pc /\ wk'[w].at = wk[w].at /\ wk'[w].state = wk[w].state
        /\ \A v \in Workers : v # w => wk'[v] = wk[v]
    BY <1>1, <1>2, <2>1, GotoEffect
  <2>3. wk'[w].at \in 1 .. Len(Files) /\ wk'[w].state \notin {"idle", "degraded"}
    BY <1>1, <1>2, <2>1, <2>2 DEF StepsOK
  <2>. QED
    BY <1>1, <2>1, <2>2, <2>3, StepsOn
<1>3. ASSUME Fail(w) PROVE wk' \in [Workers -> Processes] /\ StepsOK'
  BY <1>1, <1>3, FailEffect, StepsOn DEF Loading
<1>4. ASSUME NextFile(w), wk[w].pc \in Loading
      PROVE  wk' \in [Workers -> Processes] /\ StepsOK'
  <2>1. wk[w].at \in 1 .. Len(Files) /\ wk[w].pc # "serving"
    BY <1>1, <1>4 DEF StepsOK, Loading
  <2>2. wk[w].state \notin {"idle", "degraded"}
    BY <1>1, <2>1 DEF StepsOK
  <2>3. /\ wk' \in [Workers -> Processes] /\ wk'[w].state = wk[w].state
        /\ wk'[w].pc \in {"look", "import"} /\ wk'[w].at \in 1 .. Len(Files)
        /\ \A v \in Workers : v # w => wk'[v] = wk[v]
    BY <1>1, <1>4, <2>1, NextFileEffect, ConstantFacts
  <2>. QED
    BY <1>1, <2>2, <2>3, StepsOn
<1>5. ASSUME wk[w].pc = "fetch", NEW content \in Contents, Fetched(w, content)
      PROVE  wk' \in [Workers -> Processes] /\ StepsOK'
  <2>1. wk[w].at \in 1 .. Len(Files) /\ wk[w].state \notin {"idle", "degraded"}
    BY <1>1, <1>5 DEF StepsOK, Loading
  <2>. QED
    BY <1>1, <1>5, <2>1, FetchedEffect, StepsOn
<1>6. wk[w].pc \in Loading => File(w) \in Names
  BY <1>1, ConstantFacts DEF StepsOK, File
<1>7. CASE Start(w)
  <2>1. wk' \in [Workers -> Processes] /\ StepsOK'
    BY <1>1, <1>7, StartEffect, ConstantFacts, StepsOn DEF Loading
  <2>2. used' \in [starts : [Workers -> Nat], rolls : 0 .. MaxRolls, faults : 0 .. MaxFaults]
        /\ used'.faults = used.faults
    BY <1>1, <1>7 DEF Start, Types
  <2>. QED
    BY <1>7, <2>1, <2>2 DEF Start, TypeInv, Types, NoMock
<1>8. CASE Look(w) \/ Verify(w) \/ Recheck(w)
  <2>1. \/ Goto(w, "fetch") \/ Goto(w, "verify") \/ Fail(w) \/ NextFile(w)
    BY <1>8 DEF Look, Verify, Recheck, Download
  <2>2. wk[w].pc \in Loading
    BY <1>8 DEF Look, Verify, Recheck, At, Loading
  <2>3. wk' \in [Workers -> Processes] /\ StepsOK'
    BY <1>2, <1>3, <1>4, <2>1, <2>2 DEF Loading
  <2>4. UNCHANGED <<deploy, served, cached, disk, strays, answers, used>>
    BY <1>8 DEF Look, Verify, Recheck
  <2>. QED
    BY <2>3, <2>4 DEF TypeInv, Types, NoMock
<1>9. CASE FetchFromHub(w)
  <2>1. wk[w].pc = "fetch" /\ File(w) \in Names
    BY <1>6, <1>9 DEF FetchFromHub, At, Loading
  <2>2. served[File(w)] \in Versions /\ served[File(w)] \in Contents
        /\ cached[File(w)] \in Contents
    BY <1>1, <2>1, ConstantFacts
  <2>3. wk' \in [Workers -> Processes] /\ StepsOK'
    BY <1>3, <1>5, <1>9, <2>1, <2>2 DEF FetchFromHub
  <2>4. cached' \in [Names -> Versions \cup {"absent"}]
    BY <1>1, <1>9, <2>2 DEF FetchFromHub
  <2>5. used' = used \/ Fault
    BY <1>9 DEF FetchFromHub
  <2>6. UNCHANGED <<deploy, served, disk, strays, answers>>
    BY <1>9 DEF FetchFromHub
  <2>7. /\ used' \in [starts : [Workers -> Nat], rolls : 0 .. MaxRolls, faults : 0 .. MaxFaults]
        /\ strays' \in Nat /\ strays' <= used'.faults
    BY <1>1, <2>5, <2>6, FaultEffect, ConstantFacts DEF Types
  <2>. QED
    BY <2>3, <2>4, <2>6, <2>7 DEF TypeInv, Types, NoMock
<1>10. CASE FetchByUrllib(w)
  <2>1. wk[w].pc = "fetch" /\ File(w) \in Names
    BY <1>6, <1>10 DEF FetchByUrllib, At, Loading
  <2>2. served[File(w)] \in Contents /\ "cut" \in Contents
    BY <1>1, <2>1, ConstantFacts
  <2>3. wk' \in [Workers -> Processes] /\ StepsOK'
    BY <1>3, <1>5, <1>10, <2>1, <2>2 DEF FetchByUrllib
  <2>4. \/ used' = used /\ strays' = strays
        \/ Fault /\ strays' \in {strays, strays + 1}
    BY <1>10 DEF FetchByUrllib
  <2>5. /\ used' \in [starts : [Workers -> Nat], rolls : 0 .. MaxRolls, faults : 0 .. MaxFaults]
        /\ strays' \in Nat /\ strays' <= used'.faults
    BY <1>1, <2>4, FaultEffect, ConstantFacts DEF Types
  <2>6. UNCHANGED <<deploy, served, cached, disk, answers>>
    BY <1>10 DEF FetchByUrllib
  <2>. QED
    BY <2>3, <2>5, <2>6 DEF TypeInv, Types, NoMock
<1>11. CASE Install(w)
  <2>1. wk[w].pc = "install" /\ File(w) \in Names /\ wk[w].temp \in Contents
    BY <1>1, <1>6, <1>11 DEF Install, At, Loading, Processes
  <2>2. wk' \in [Workers -> Processes] /\ StepsOK'
    <3>1. CASE wk' = [wk EXCEPT ![w].pc = "recheck", ![w].temp = "absent"]
      <4>1. wk[w].at \in 1 .. Len(Files) /\ wk[w].state \notin {"idle", "degraded"}
        BY <1>1, <2>1 DEF StepsOK, Loading
      <4>. QED
        BY <1>1, <3>1, <4>1, InstalledEffect, StepsOn
    <3>. QED
      BY <1>3, <1>11, <3>1 DEF Install
  <2>3. disk' \in [Names -> Contents]
    BY <1>1, <1>11, <2>1 DEF Install
  <2>4. used' = used \/ Fault
    BY <1>11 DEF Install
  <2>5. UNCHANGED <<deploy, served, cached, strays, answers>>
    BY <1>11 DEF Install
  <2>6. /\ used' \in [starts : [Workers -> Nat], rolls : 0 .. MaxRolls, faults : 0 .. MaxFaults]
        /\ strays' \in Nat /\ strays' <= used'.faults
    BY <1>1, <2>4, <2>5, FaultEffect, ConstantFacts DEF Types
  <2>. QED
    BY <2>2, <2>3, <2>5, <2>6 DEF TypeInv, Types, NoMock
<1>12. CASE Import(w)
  <2>1. wk[w].pc = "import"
    BY <1>12 DEF Import, At
  <2>2. wk' \in [Workers -> Processes] /\ StepsOK'
    <3>1. CASE wk' = [wk EXCEPT ![w] = [@ EXCEPT !.pc = "serving", !.state = "idle"]]
      BY <1>1, <3>1, ReadyEffect, StepsOn DEF Loading
    <3>2. CASE Goto(w, "weights")
      BY <1>2, <2>1, <3>2 DEF Loading
    <3>. QED
      BY <1>3, <1>12, <3>1, <3>2 DEF Import, Goto
  <2>3. used' = used \/ Fault
    BY <1>12 DEF Import
  <2>4. UNCHANGED <<deploy, served, cached, disk, strays, answers>>
    BY <1>12 DEF Import
  <2>5. /\ used' \in [starts : [Workers -> Nat], rolls : 0 .. MaxRolls, faults : 0 .. MaxFaults]
        /\ strays' \in Nat /\ strays' <= used'.faults
    BY <1>1, <2>3, <2>4, FaultEffect, ConstantFacts DEF Types
  <2>. QED
    BY <2>2, <2>4, <2>5 DEF TypeInv, Types, NoMock
<1>13. CASE LoadWeights(w)
  <2>1. /\ wk[w].pc = "weights" /\ wk[w].at \in 1 .. Len(Files)
        /\ wk[w].state \notin {"idle", "degraded"}
    BY <1>1, <1>13 DEF LoadWeights, At, StepsOK, Loading
  <2>2. wk' \in [Workers -> Processes] /\ StepsOK'
    <3>1. CASE Fail(w)
      BY <1>3, <3>1
    <3>2. CASE ~Fail(w)
      <4>1. /\ wk' \in [Workers -> Processes]
            /\ \/ /\ wk[w].at < Len(Files) /\ wk'[w].at = wk[w].at + 1
                  /\ wk'[w].pc = wk[w].pc /\ wk'[w].state = wk[w].state
               \/ wk[w].at = Len(Files) /\ wk'[w].pc = "serving" /\ wk'[w].state = "idle"
            /\ \A v \in Workers : v # w => wk'[v] = wk[v]
        BY <1>1, <1>13, <2>1, <3>2, WeightsEffect DEF LoadWeights
      <4>2. wk'[w].pc \in Loading => wk'[w].at \in 1 .. Len(Files)
        BY <2>1, <4>1, ConstantFacts DEF Loading
      <4>3. (wk'[w].pc = "serving") <=> (wk'[w].state \in {"idle", "degraded"})
        BY <2>1, <4>1
      <4>. QED
        BY <1>1, <4>1, <4>2, <4>3, StepsOn
    <3>. QED
      BY <3>1, <3>2
  <2>3. UNCHANGED <<deploy, served, cached, disk, strays, answers, used>>
    BY <1>13 DEF LoadWeights
  <2>. QED
    BY <2>2, <2>3 DEF TypeInv, Types, NoMock
<1>. QED
  BY <1>7, <1>8, <1>9, <1>10, <1>11, <1>12, <1>13 DEF LoadStep

LEMMA TypeInvNext == TypeInv /\ [Next]_vars => TypeInv'
<1>. SUFFICES ASSUME TypeInv, [Next]_vars PROVE TypeInv'
  OBVIOUS
<1>1. /\ wk \in [Workers -> Processes] /\ Types /\ StepsOK
  BY DEF TypeInv, Types
<1>2. ASSUME NEW w \in Workers, Compile(w) \/ Render(w) PROVE TypeInv'
  <2>1. wk[w].state \in {"idle", "degraded"}
    BY <1>1, <1>2 DEF Compile, Render, At, StepsOK
  <2>2. deploy.kind = "musetalk" =>
            Prepared(wk[w].state) # "mock" /\ Rendered(wk[w].state) # "mock"
    BY <2>1 DEF Prepared, Rendered
  <2>3. ASSUME NEW job, NEW outcome, Answer(job, wk[w].state, outcome), deploy' = deploy,
               deploy.kind = "musetalk" => outcome # "mock"
        PROVE  NoMock'
    <3>. DEFINE a == <<job, wk[w].state, outcome>>
    <3>1. a[3] = outcome
      OBVIOUS
    <3>2. answers' = answers \cup {a}
      BY <2>3 DEF Answer
    <3>. HIDE DEF a
    <3>3. \A b \in answers : deploy.kind = "musetalk" => b[3] # "mock"
      BY DEF TypeInv, NoMock
    <3>. QED
      BY <2>3, <3>1, <3>2, <3>3 DEF NoMock
  <2>4. UNCHANGED <<deploy, served, cached, disk, strays, wk, used>>
    BY <1>2 DEF Compile, Render
  <2>5. NoMock'
    BY <1>2, <2>2, <2>3, <2>4 DEF Compile, Render
  <2>. QED
    BY <2>4, <2>5 DEF TypeInv, Types, StepsOK
<1>3. ASSUME NEW w \in Workers, Unload(w) \/ Kill(w) PROVE TypeInv'
  <2>1. wk' = [wk EXCEPT ![w] = Down]
    BY <1>3 DEF Unload, Kill
  <2>2. wk' \in [Workers -> Processes] /\ StepsOK'
    BY <1>1, <2>1, ConstantFacts, StepsOn DEF Down, Loading
  <2>3. \/ used' = used /\ strays' = strays
        \/ Fault /\ strays' \in {strays, strays + 1}
    BY <1>3 DEF Unload, Kill
  <2>4. /\ used' \in [starts : [Workers -> Nat], rolls : 0 .. MaxRolls, faults : 0 .. MaxFaults]
        /\ strays' \in Nat /\ strays' <= used'.faults
    BY <1>1, <2>3, FaultEffect, ConstantFacts DEF Types
  <2>5. UNCHANGED <<deploy, served, cached, disk, answers>>
    BY <1>3 DEF Unload, Kill
  <2>. QED
    BY <2>2, <2>4, <2>5 DEF TypeInv, Types, NoMock
<1>4. ASSUME NEW f \in Names, Roll(f) PROVE TypeInv'
  <2>1. served' \in [Names -> Versions]
    BY <1>1, <1>4 DEF Roll, Types
  <2>2. used' \in [starts : [Workers -> Nat], rolls : 0 .. MaxRolls, faults : 0 .. MaxFaults]
        /\ used'.faults = used.faults
    <3>1. used \in [starts : [Workers -> Nat], rolls : 0 .. MaxRolls, faults : 0 .. MaxFaults]
      BY <1>1 DEF Types
    <3>2. used.rolls + 1 \in 0 .. MaxRolls
      BY <1>4, <3>1, ConstantFacts DEF Roll
    <3>3. used' = [used EXCEPT !.rolls = used.rolls + 1]
      BY <1>4 DEF Roll
    <3>. QED
      BY <3>1, <3>2, <3>3
  <2>3. UNCHANGED <<deploy, cached, disk, strays, wk, answers>>
    BY <1>4 DEF Roll
  <2>. QED
    BY <2>1, <2>2, <2>3 DEF TypeInv, Types, StepsOK, NoMock
<1>5. CASE UNCHANGED vars
  BY <1>5 DEF vars, TypeInv, Types, StepsOK, NoMock
<1>. QED
  BY <1>2, <1>3, <1>4, <1>5, LoadTypeInv DEF Next

\* Every variable keeps its type, no more temporary files are left than there
\* were faults, and MuseTalk never answers with its mock, for any number of
\* workers.
THEOREM EngineTypeCorrect == Spec => []TypeOK
<1>1. TypeInv => TypeOK
  BY ConstantFacts DEF TypeInv, Types, StepsOK, NoMock, TypeOK
<1>. QED
  BY <1>1, TypeInvInit, TypeInvNext, PTL DEF Spec

-----------------------------------------------------------------------------
(* What one worker knows of the files.                                      *)

Checked(w, n) == \A j \in 1 .. n : Accepts(w, Files[j], disk[Files[j]])

\* The files before the one it is at are good; it downloads a file only to
\* replace a bad one; and what it has read into VRAM is what the directory holds.
Progress(w) ==
    /\ wk[w].pc \in {"look", "verify", "fetch", "install", "recheck"} => Checked(w, wk[w].at - 1)
    /\ wk[w].pc \in {"fetch", "install"} => ~Accepts(w, File(w), disk[File(w)])
    /\ wk[w].pc \in {"import", "weights"} \/ Serving(w) => Checked(w, Len(Files))
    /\ wk[w].pc = "import" => wk[w].at = 1
    /\ wk[w].pc = "weights" =>
           \A j \in 1 .. wk[w].at - 1 : wk[w].weights[Files[j]] = disk[Files[j]]
    /\ Serving(w) /\ deploy.kind = "liveportrait" => \A f \in Names : wk[w].weights[f] = disk[f]

OneWorker == \A v, w \in Workers : v = w

\* The worker itself writes no file but the one it replaces.
LEMMA ProgressStart ==
    ASSUME TypeInv, NEW w \in Workers, Start(w)
    PROVE  Progress(w)'
<1>1. \/ wk'[w].pc = "look" /\ wk'[w].at = 1 /\ wk'[w].state = "loading"
      \/ wk'[w].pc = "serving" /\ wk'[w].state = "degraded"
  BY StartEffect DEF TypeInv, Types
<1>2. wk'[w].pc = "look" => Checked(w, wk[w].at - 1)'
  BY <1>1 DEF Checked
<1>. QED
  BY <1>1, <1>2 DEF Progress, Serving

LEMMA ProgressFail ==
    ASSUME TypeInv, NEW w \in Workers, Fail(w)
    PROVE  Progress(w)'
<1>1. wk'[w].pc = "serving" /\ wk'[w].state = "degraded"
  BY FailEffect DEF TypeInv, Types
<1>. QED
  BY <1>1 DEF Progress, Serving

\* Past a file that verify() accepts.
LEMMA ProgressNext ==
    ASSUME TypeInv, NEW w \in Workers, NextFile(w), wk[w].pc \in Loading,
           Checked(w, wk[w].at - 1), Accepts(w, File(w), disk[File(w)]),
           UNCHANGED <<deploy, disk>>
    PROVE  Progress(w)'
<1>1. wk[w].at \in 1 .. Len(Files) /\ wk[w].pc # "serving"
  BY DEF TypeInv, StepsOK, Loading
<1>2. /\ wk'[w].state = wk[w].state
      /\ \/ wk'[w].pc = "look" /\ wk'[w].at = wk[w].at + 1 /\ wk[w].at < Len(Files)
         \/ wk'[w].pc = "import" /\ wk'[w].at = 1 /\ wk[w].at = Len(Files)
  BY <1>1, NextFileEffect DEF TypeInv, Types
<1>3. Checked(w, wk[w].at)
  <2>. SUFFICES ASSUME NEW j \in 1 .. wk[w].at PROVE Accepts(w, Files[j], disk[Files[j]])
    BY DEF Checked
  <2>1. CASE j = wk[w].at
    BY <2>1 DEF File
  <2>2. CASE j # wk[w].at
    <3>1. j \in 1 .. wk[w].at - 1
      BY <1>1, <2>2, ConstantFacts
    <3>. QED
      BY <3>1 DEF Checked
  <2>. QED
    BY <2>1, <2>2
<1>4. wk'[w].pc = "look" => Checked(w, wk[w].at - 1)'
  <2>. SUFFICES ASSUME wk'[w].pc = "look" PROVE Checked(w, wk[w].at - 1)'
    OBVIOUS
  <2>1. wk'[w].at - 1 = wk[w].at
    BY <1>1, <1>2, ConstantFacts
  <2>. QED
    BY <1>3, <2>1 DEF Checked, Accepts
<1>5. wk'[w].pc = "import" => Checked(w, Len(Files))'
  BY <1>2, <1>3 DEF Checked, Accepts
<1>. QED
  BY <1>2, <1>4, <1>5 DEF Progress, Serving

\* To another step of load() at the same file.
LEMMA ProgressStay ==
    ASSUME TypeInv, NEW w \in Workers, Checked(w, wk[w].at - 1),
           wk'[w].pc \in {"verify", "fetch", "install"}, wk'[w].at = wk[w].at,
           wk'[w].pc \in {"fetch", "install"} => ~Accepts(w, File(w), disk[File(w)]),
           UNCHANGED <<deploy, disk>>
    PROVE  Progress(w)'
<1>1. Checked(w, wk[w].at - 1)'
  BY DEF Checked, Accepts
<1>2. wk'[w].pc \in {"fetch", "install"} => (~Accepts(w, File(w), disk[File(w)]))'
  BY DEF Accepts, File
<1>. QED
  BY <1>1, <1>2 DEF Progress, Serving

LEMMA ProgressInstall ==
    ASSUME TypeInv, NEW w \in Workers, Progress(w), Install(w)
    PROVE  Progress(w)'
<1>1. CASE Fail(w)
  BY <1>1, ProgressFail
<1>2. CASE /\ disk' = [disk EXCEPT ![File(w)] = wk[w].temp]
           /\ wk' = [wk EXCEPT ![w].pc = "recheck", ![w].temp = "absent"]
  <2>1. wk'[w].pc = "recheck" /\ wk'[w].at = wk[w].at
    BY <1>2, InstalledEffect DEF TypeInv, Types
  <2>2. wk[w].pc = "install" /\ wk[w].at \in 1 .. Len(Files) /\ deploy' = deploy
    BY DEF Install, At, TypeInv, StepsOK, Loading
  <2>3. Checked(w, wk[w].at - 1) /\ ~Accepts(w, File(w), disk[File(w)])
    BY <2>2 DEF Progress
  <2>4. ASSUME NEW j \in 1 .. wk[w].at - 1
        PROVE  Accepts(w, Files[j], disk[Files[j]])'
    <3>1. Accepts(w, Files[j], disk[Files[j]])
      BY <2>3 DEF Checked
    <3>2. Files[j] # File(w) /\ Files[j] \in Names
      BY <2>2, <2>3, <3>1, ConstantFacts
    <3>3. disk'[Files[j]] = disk[Files[j]]
      BY <1>2, <3>2 DEF TypeInv, Types
    <3>. QED
      BY <2>2, <3>1, <3>3 DEF Accepts
  <2>5. Checked(w, wk[w].at - 1)'
    BY <2>1, <2>4 DEF Checked
  <2>. QED
    BY <2>1, <2>5 DEF Progress, Serving
<1>. QED
  BY <1>1, <1>2 DEF Install

LEMMA ProgressImport ==
    ASSUME TypeInv, NEW w \in Workers, Progress(w), Import(w)
    PROVE  Progress(w)'
<1>1. wk[w].pc = "import" /\ wk[w].at = 1 /\ UNCHANGED <<deploy, disk>>
  BY DEF Import, At, Progress
<1>2. Checked(w, Len(Files))'
  BY <1>1 DEF Progress, Checked, Accepts
<1>3. CASE Fail(w)
  BY <1>3, ProgressFail
<1>4. CASE /\ deploy.kind = "musetalk"
           /\ wk' = [wk EXCEPT ![w] = [@ EXCEPT !.pc = "serving", !.state = "idle"]]
  <2>1. wk'[w].pc = "serving" /\ wk'[w].state = "idle"
    BY <1>4, ReadyEffect DEF TypeInv, Types
  <2>2. deploy'.kind # "liveportrait"
    BY <1>1, <1>4
  <2>. QED
    BY <1>2, <2>1, <2>2 DEF Progress
<1>5. CASE Goto(w, "weights")
  <2>1. wk'[w].pc = "weights" /\ wk'[w].at = 1
    BY <1>1, <1>5, GotoEffect DEF TypeInv, Types, Steps
  <2>. QED
    BY <1>2, <2>1 DEF Progress, Serving
<1>. QED
  BY <1>3, <1>4, <1>5 DEF Import, Goto

LEMMA ProgressWeights ==
    ASSUME TypeInv, NEW w \in Workers, Progress(w), LoadWeights(w)
    PROVE  Progress(w)'
<1>1. /\ wk[w].pc = "weights" /\ wk[w].at \in 1 .. Len(Files)
      /\ UNCHANGED <<deploy, disk>>
  BY DEF LoadWeights, At, TypeInv, StepsOK, Loading
<1>2. Checked(w, Len(Files))'
  BY <1>1 DEF Progress, Checked, Accepts
<1>3. CASE Fail(w)
  BY <1>3, ProgressFail
<1>4. CASE ~Fail(w)
  <2>1. /\ wk'[w].weights = [wk[w].weights EXCEPT ![File(w)] = disk[File(w)]]
        /\ \/ /\ wk[w].at < Len(Files) /\ wk'[w].at = wk[w].at + 1
              /\ wk'[w].pc = wk[w].pc /\ wk'[w].state = wk[w].state
           \/ wk[w].at = Len(Files) /\ wk'[w].pc = "serving" /\ wk'[w].state = "idle"
    BY <1>1, <1>4, WeightsEffect DEF LoadWeights, TypeInv, Types
  <2>2. File(w) \in Names /\ wk[w].weights \in [Names -> Contents]
    BY <1>1, ConstantFacts DEF File, TypeInv, Types, Processes
  <2>3. ASSUME NEW j \in 1 .. wk[w].at
        PROVE  wk'[w].weights[Files[j]] = disk'[Files[j]]
    <3>1. Files[j] \in Names
      BY <1>1, ConstantFacts
    <3>2. CASE j = wk[w].at
      BY <1>1, <2>1, <2>2, <3>2 DEF File
    <3>3. CASE j # wk[w].at
      <4>1. j \in 1 .. wk[w].at - 1
        BY <1>1, <3>3, ConstantFacts
      <4>2. wk[w].weights[Files[j]] = disk[Files[j]]
        BY <1>1, <4>1 DEF Progress
      <4>. QED
        BY <1>1, <2>1, <2>2, <3>1, <4>2
    <3>. QED
      BY <3>2, <3>3
  <2>4. CASE wk[w].at < Len(Files) /\ wk'[w].at = wk[w].at + 1 /\ wk'[w].pc = wk[w].pc
    <3>1. wk'[w].at - 1 = wk[w].at
      BY <1>1, <2>4, ConstantFacts
    <3>2. \A j \in 1 .. wk'[w].at - 1 : wk'[w].weights[Files[j]] = disk'[Files[j]]
      BY <2>3, <3>1
    <3>. QED
      BY <1>1, <1>2, <2>4, <3>2 DEF Progress, Serving
  <2>5. CASE wk[w].at = Len(Files) /\ wk'[w].pc = "serving" /\ wk'[w].state = "idle"
    <3>1. \A f \in Names : wk'[w].weights[f] = disk'[f]
      BY <2>3, <2>5 DEF Names
    <3>. QED
      BY <1>2, <2>5, <3>1 DEF Progress
  <2>. QED
    BY <2>1, <2>4, <2>5
<1>. QED
  BY <1>3, <1>4

\* A step that leaves the worker and the directory alone.
LEMMA ProgressFrame ==
    ASSUME NEW w \in Workers, Progress(w), UNCHANGED <<deploy, disk, wk>>
    PROVE  Progress(w)'
  BY DEF Progress, Serving, Checked, Accepts, File

LEMMA ProgressLoad ==
    ASSUME TypeInv, NEW w \in Workers, Progress(w), LoadStep(w)
    PROVE  Progress(w)'
<1>1. ASSUME NEW pc \in {"verify", "fetch"}, Goto(w, pc), UNCHANGED <<deploy, disk>>,
             Checked(w, wk[w].at - 1),
             pc = "fetch" => ~Accepts(w, File(w), disk[File(w)])
      PROVE  Progress(w)'
  <2>1. pc \in Steps
    BY DEF Steps
  <2>2. wk'[w].pc = pc /\ wk'[w].at = wk[w].at
    BY <1>1, <2>1, GotoEffect DEF TypeInv, Types
  <2>. QED
    BY <1>1, <2>2, ProgressStay
<1>2. CASE Look(w)
  <2>1. /\ wk[w].pc = "look" /\ Checked(w, wk[w].at - 1) /\ UNCHANGED <<deploy, disk>>
    BY <1>2 DEF Look, At, Progress
  <2>2. \/ Goto(w, "verify") \/ Fail(w)
        \/ Goto(w, "fetch") /\ ~Accepts(w, File(w), disk[File(w)])
    BY <1>2 DEF Look, Download, Accepts
  <2>. QED
    BY <1>1, <2>1, <2>2, ProgressFail
<1>3. CASE Verify(w) \/ Recheck(w)
  <2>1. /\ wk[w].pc \in {"verify", "recheck"} /\ Checked(w, wk[w].at - 1)
        /\ UNCHANGED <<deploy, disk>>
    BY <1>3 DEF Verify, Recheck, At, Progress
  <2>2. \/ NextFile(w) /\ Accepts(w, File(w), disk[File(w)])
        \/ Goto(w, "fetch") /\ ~Accepts(w, File(w), disk[File(w)])
        \/ Fail(w)
    BY <1>3 DEF Verify, Recheck, Download
  <2>3. wk[w].pc \in Loading
    BY <2>1 DEF Loading
  <2>. QED
    BY <1>1, <2>1, <2>2, <2>3, ProgressFail, ProgressNext
<1>4. CASE FetchFromHub(w) \/ FetchByUrllib(w)
  <2>1. /\ wk[w].pc = "fetch" /\ Checked(w, wk[w].at - 1) /\ UNCHANGED <<deploy, disk>>
        /\ ~Accepts(w, File(w), disk[File(w)])
    BY <1>4 DEF FetchFromHub, FetchByUrllib, At, Progress
  <2>2. wk[w].pc \in Loading /\ File(w) \in Names
    BY <2>1, ConstantFacts DEF Loading, TypeInv, StepsOK, File
  <2>3. \/ Fail(w) \/ Fetched(w, served[File(w)]) \/ Fetched(w, "cut")
        \/ Fetched(w, cached[File(w)])
    BY <1>4 DEF FetchFromHub, FetchByUrllib
  <2>4. served[File(w)] \in Contents /\ cached[File(w)] \in Contents /\ "cut" \in Contents
    BY <2>2, ConstantFacts DEF TypeInv, Types
  <2>5. CASE Fail(w)
    BY <2>5, ProgressFail
  <2>6. ASSUME NEW content \in Contents, Fetched(w, content) PROVE Progress(w)'
    <3>1. wk'[w].pc = "install" /\ wk'[w].at = wk[w].at
      BY <2>6, FetchedEffect DEF TypeInv, Types
    <3>. QED
      BY <2>1, <3>1, ProgressStay
  <2>. QED
    BY <2>3, <2>4, <2>5, <2>6
<1>. QED
  BY <1>2, <1>3, <1>4, ProgressInstall, ProgressImport, ProgressWeights DEF LoadStep

Alone == TypeInv /\ \A w \in Workers : Progress(w)

LEMMA AloneInit == Init => Alone
<1>. SUFFICES ASSUME Init PROVE Alone
  OBVIOUS
<1>1. ASSUME NEW w \in Workers PROVE Progress(w)
  BY DEF Init, Down, Progress, Serving
<1>. QED
  BY <1>1, TypeInvInit DEF Alone

LEMMA AloneNext ==
    ASSUME OneWorker, Alone, [Next]_vars
    PROVE  Alone'
<1>1. TypeInv /\ TypeInv'
  BY TypeInvNext DEF Alone
<1>2. ASSUME NEW w \in Workers PROVE Progress(w)'
  <2>1. Progress(w)
    BY DEF Alone
  <2>2. ASSUME NEW v \in Workers PROVE v = w
    BY DEF OneWorker
  <2>3. CASE \E v \in Workers : Start(v) \/ LoadStep(v)
    <3>1. Start(w) \/ LoadStep(w)
      BY <2>2, <2>3
    <3>. QED
      BY <1>1, <2>1, <3>1, ProgressStart, ProgressLoad
  <2>4. CASE \E v \in Workers : Unload(v) \/ Kill(v)
    <3>1. Unload(w) \/ Kill(w)
      BY <2>2, <2>4
    <3>2. wk'[w].pc = "off"
      BY <1>1, <3>1 DEF Unload, Kill, Down, TypeInv, Types
    <3>. QED
      BY <3>2 DEF Progress, Serving
  <2>5. CASE \/ \E v \in Workers : Compile(v) \/ Render(v)
             \/ \E f \in Names : Roll(f)
             \/ UNCHANGED vars
    <3>1. UNCHANGED <<deploy, disk, wk>>
      BY <2>5 DEF Compile, Render, Roll, vars
    <3>. QED
      BY <2>1, <3>1, ProgressFrame
  <2>. QED
    BY <2>3, <2>4, <2>5 DEF Next
<1>. QED
  BY <1>1, <1>2 DEF Alone

\* Every file of an engine that came up is one verify() accepts.
LEMMA AllAccepted ==
    ASSUME Alone, NEW w \in Workers, Serving(w), NEW f \in Names
    PROVE  Accepts(w, f, disk[f])
<1>1. Checked(w, Len(Files))
  BY DEF Alone, Progress
<1>2. PICK j \in 1 .. Len(Files) : f = Files[j]
  BY DEF Names
<1>. QED
  BY <1>1, <1>2 DEF Checked

\* A LivePortrait engine that is the only one on its volume is IDLE with the
\* bytes its manifest pins and no others, whatever the directory held, the
\* upstream served and failed.
THEOREM PinnedWeightsOnly ==
    ASSUME OneWorker
    PROVE  Spec => []OnlyPinnedWeights
<1>1. ASSUME Alone PROVE OnlyPinnedWeights
  <2>. SUFFICES ASSUME NEW w \in Workers, NEW f \in Names, deploy.kind = "liveportrait",
                       Serving(w), deploy.pin[f] # "TBD"
                PROVE  wk[w].weights[f] = deploy.pin[f]
    BY DEF OnlyPinnedWeights
  <2>1. Accepts(w, f, disk[f])
    BY <1>1, AllAccepted
  <2>2. wk[w].weights[f] = disk[f]
    BY <1>1 DEF Alone, Progress
  <2>. QED
    BY <2>1, <2>2 DEF Accepts
<1>. QED
  BY <1>1, AloneInit, AloneNext, PTL DEF Spec

\* An engine that is the only one on its volume and came up has nothing but
\* verified files, whatever was done to the directory before it began, and
\* whatever was downloaded and failed since.
THEOREM VerifiedFilesOnly ==
    ASSUME OneWorker
    PROVE  Spec => []ServesVerifiedFiles
<1>1. Alone => ServesVerifiedFiles
  BY AllAccepted DEF ServesVerifiedFiles, Accepts
<1>. QED
  BY <1>1, AloneInit, AloneNext, PTL DEF Spec

\* load() replaces a file only when verify() has refused it, so that a file with
\* its pinned content stays, whatever is downloaded.
THEOREM GoodFilesStay ==
    ASSUME OneWorker
    PROVE  Spec => GoodFileKept
<1>1. ASSUME Alone, [Next]_vars, NEW f \in Names, disk[f] = deploy.pin[f]
      PROVE  disk'[f] = deploy.pin[f]
  <2>1. disk[f] \in Contents /\ disk \in [Names -> Contents]
        /\ deploy.pin[f] \in Versions \cup {"TBD"}
    BY <1>1 DEF Alone, TypeInv, Types, SetUps
  <2>2. disk[f] # "TBD" /\ disk[f] # "absent"
    BY <1>1, <2>1, EngineAssumption DEF EngineAssumption, Contents
  <2>3. CASE UNCHANGED disk
    BY <1>1, <2>3
  <2>4. CASE \E w \in Workers : Install(w)
    <3>1. PICK w \in Workers : Install(w)
      BY <2>4
    <3>2. wk[w].pc = "install" /\ (disk' = disk \/ disk' = [disk EXCEPT ![File(w)] = wk[w].temp])
      BY <3>1 DEF Install, At
    <3>3. ~Accepts(w, File(w), disk[File(w)])
      BY <1>1, <3>2 DEF Alone, Progress
    <3>4. f # File(w)
      BY <1>1, <2>2, <3>3 DEF Accepts
    <3>. QED
      BY <1>1, <2>1, <3>2, <3>4
  <2>5. UNCHANGED disk \/ \E w \in Workers : Install(w)
    BY <1>1 DEF Next, LoadStep, Start, Look, Verify, FetchFromHub, FetchByUrllib, Recheck,
                Import, LoadWeights, Compile, Render, Unload, Kill, Roll, vars
  <2>. QED
    BY <2>3, <2>4, <2>5
<1>2. ASSUME Alone, [Next]_vars
      PROVE  [\A f \in Names : disk[f] = deploy.pin[f] => disk'[f] = deploy.pin[f]]_disk
  BY <1>1, <1>2
<1>. QED
  BY <1>2, AloneInit, AloneNext, PTL DEF Spec, GoodFileKept
=============================================================================
