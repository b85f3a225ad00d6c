-------------------------- MODULE SingleInstanceProofs --------------------------
(***************************************************************************)
(* OneOwner and OwnerIsReachable for any number of launches and kills, when *)
(* no instance is closed while a launch has found the address in use, and   *)
(* none dies in the gap between removing a leftover socket and binding its  *)
(* own: the two events after which the path is clear while a launch is      *)
(* already past finding it taken.                                           *)
(***************************************************************************)
EXTENDS SingleInstance, TLAPS

(* What the result rests on.                                                 *)
GapIsSafe == QuitAt \cap ({"claim"} \cup Recovery) = {} /\ "relisten" \notin CrashAt

(* A launch that found the address in use still finds something at the path, *)
(* unless the holder of the claim has just cleared it; a launch about to     *)
(* clear it is the only one recovering, and what it clears is a leftover.    *)
PathHeld(p) ==
    /\ pc[p] \in Recovery => claim = p
    /\ pc[p] = "claim" => (path # None \/ \E q \in Procs : pc[q] = "relisten")
    /\ pc[p] = "reprobe" => path # None
    /\ pc[p] = "remove" => path = Stale

IInv == TypeOK /\ OwnerIsReachable /\ \A p \in Procs : PathHeld(p)

(* Every reachable state has its type: single_instance.listen's socket path  *)
(* names nothing, a leftover or one launch, and one launch holds the claim.  *)
THEOREM TypeCorrect == Spec => []TypeOK
<1>1. Init => TypeOK
  BY DEF Init, TypeOK, Labels
<1>2. TypeOK /\ [Next]_vars => TypeOK'
  <2> SUFFICES ASSUME TypeOK, [Next]_vars PROVE TypeOK'
    OBVIOUS
  <2>1. CASE UNCHANGED vars
    BY <2>1 DEF TypeOK, vars
  <2>2. ASSUME NEW p \in Procs, Start(p) \/ Launching(p) \/ Quit(p) \/ Crash(p)
        PROVE  TypeOK'
    BY <2>2 DEF TypeOK, Labels, Recovery, Start, Launching, Probe, Build, Listen,
                Claim, Reprobe, Remove, Relisten, Last, Quit, Crash, Goto, Bind
  <2> QED BY <2>1, <2>2 DEF Next
<1> QED BY <1>1, <1>2, PTL DEF Spec

(* Nobody owns anything at the start.                                        *)
LEMMA InitInv == Init => IInv
BY ProcsAreNamed DEF Init, IInv, TypeOK, OwnerIsReachable, PathHeld, Labels, Recovery, None, Stale

(* Binding happens only over a clear path, and a clear path means no owner.  *)
LEMMA NoOwnerOffPath ==
    ASSUME IInv, path \notin Procs PROVE guard = {}
BY DEF IInv, TypeOK, OwnerIsReachable

(* Each step keeps the owner reachable and the recoveries one at a time.     *)
LEMMA InvStep ==
    ASSUME GapIsSafe, IInv, [Next]_vars PROVE IInv'
<1> USE ProcsAreNamed DEF GapIsSafe
<1>1. TypeOK'
  BY DEF IInv, TypeOK, Labels, Recovery, Next, vars, Start, Launching, Probe, Build,
         Listen, Claim, Reprobe, Remove, Relisten, Last, Quit, Crash, Goto, Bind
<1>2. CASE UNCHANGED vars
  BY <1>2 DEF IInv, TypeOK, OwnerIsReachable, PathHeld, vars
<1>3. ASSUME NEW p \in Procs, Start(p) \/ Probe(p) \/ Build(p) \/ Last(p)
      PROVE  IInv'
  BY <1>1, <1>3 DEF IInv, TypeOK, OwnerIsReachable, PathHeld, Recovery,
                    Start, Probe, Build, Last, Goto
<1>4. ASSUME NEW p \in Procs, Listen(p) PROVE IInv'
  <2>1. CASE path = None /\ Bind(p)
    <3>1. guard = {} BY <2>1, NoOwnerOffPath
    <3> QED BY <1>1, <1>4, <2>1, <3>1
            DEF IInv, TypeOK, OwnerIsReachable, PathHeld, Recovery, Listen, Bind, Goto, None, Stale
  <2>2. CASE path # None /\ Goto(p, "claim") /\ UNCHANGED <<path, guard>>
    BY <1>1, <1>4, <2>2 DEF IInv, TypeOK, OwnerIsReachable, PathHeld, Recovery, Listen, Goto
  <2>3. CASE Goto(p, "last") /\ UNCHANGED <<path, guard>>
    BY <1>1, <1>4, <2>3 DEF IInv, TypeOK, OwnerIsReachable, PathHeld, Recovery, Listen, Goto
  <2> QED BY <1>4, <2>1, <2>2, <2>3 DEF Listen
<1>5. ASSUME NEW p \in Procs, Claim(p) PROVE IInv'
  BY <1>1, <1>5 DEF IInv, TypeOK, OwnerIsReachable, PathHeld, Recovery, Claim, Goto
<1>6. ASSUME NEW p \in Procs, Reprobe(p) PROVE IInv'
  BY <1>1, <1>6 DEF IInv, TypeOK, OwnerIsReachable, PathHeld, Recovery, Reprobe, Goto, Answered
<1>7. ASSUME NEW p \in Procs, Remove(p) PROVE IInv'
  <2>1. guard = {}
    BY <1>7, NoOwnerOffPath DEF IInv, PathHeld, Remove
  <2> QED BY <1>1, <1>7, <2>1
          DEF IInv, TypeOK, OwnerIsReachable, PathHeld, Recovery, Remove, Goto
<1>8. ASSUME NEW p \in Procs, Relisten(p) PROVE IInv'
  <2>1. CASE path = None
    <3>1. guard = {} BY <2>1, NoOwnerOffPath
    <3> QED BY <1>1, <1>8, <2>1, <3>1
            DEF IInv, TypeOK, OwnerIsReachable, PathHeld, Recovery, Relisten, Bind, Goto, None, Stale
  <2>2. CASE path # None
    BY <1>1, <1>8, <2>2 DEF IInv, TypeOK, OwnerIsReachable, PathHeld, Recovery, Relisten, Goto
  <2> QED BY <2>1, <2>2
<1>9. ASSUME NEW p \in Procs, Crash(p) PROVE IInv'
  BY <1>1, <1>9 DEF IInv, TypeOK, OwnerIsReachable, PathHeld, Recovery, Crash, Goto, None, Stale
<1>10. ASSUME NEW p \in Procs, Quit(p) PROVE IInv'
  <2>1. \A q \in Procs : pc[q] \notin {"claim"} \cup Recovery
    BY <1>10 DEF Quit
  <2> QED BY <1>1, <1>10, <2>1
          DEF IInv, TypeOK, OwnerIsReachable, PathHeld, Recovery, Quit, Goto, None, Stale
<1> QED BY <1>2, <1>3, <1>4, <1>5, <1>6, <1>7, <1>8, <1>9, <1>10 DEF Next, Launching

(* INV-3a and INV-3b for any number of launches: no two processes both hold  *)
(* the guard listen() returns.                                               *)
THEOREM AtMostOneOwner ==
    ASSUME GapIsSafe PROVE Spec => []OneOwner
<1>1. IInv => OneOwner
  BY DEF IInv, OwnerIsReachable, OneOwner
<1>2. IInv /\ [Next]_vars => IInv'
  BY InvStep
<1> QED BY <1>1, <1>2, InitInv, PTL DEF Spec

(* ... and every later launch finds it: removeServer never unlinks the       *)
(* socket of a live owner.                                                   *)
THEOREM OwnerStaysReachable ==
    ASSUME GapIsSafe PROVE Spec => []OwnerIsReachable
<1>1. IInv => OwnerIsReachable
  BY DEF IInv
<1>2. IInv /\ [Next]_vars => IInv'
  BY InvStep
<1> QED BY <1>1, <1>2, InitInv, PTL DEF Spec
=============================================================================
