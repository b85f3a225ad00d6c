----------------------------- MODULE SingleInstance -----------------------------
(***************************************************************************)
(* The single-instance guard: single_instance.py (another_instance_is_      *)
(* running, listen, _claim) as app.run() uses it - probe, build the window, *)
(* listen, and on failure probe once more before running unguarded.         *)
(*                                                                          *)
(* Qt's local socket is external: listen binds the path, or answers         *)
(* AddressInUse when anything is there; a connection succeeds exactly when  *)
(* a live process is bound to what the path names; removeServer unlinks the *)
(* path whoever owns it; a server that is closed unlinks its path.  A       *)
(* process that dies leaves the path behind, and the kernel drops its flock.*)
(***************************************************************************)
EXTENDS Naturals

CONSTANTS
    Procs,     \* launches of the program; one that has ended may start again
    CrashAt,   \* the places at which a process may be killed
    MaxCrashes, \* how many are killed in a behaviour
    QuitAt,    \* a running instance may be closed by its user while every
               \* launch is at one of these places
    Mishaps    \* TRUE: bind may fail for another reason, and a claim may time out

VARIABLES
    pc,     \* where each launch is
    path,   \* what the socket path names: a live process, "stale" or "none"
    guard,  \* which processes hold a QLocalServer
    claim,  \* which process holds the recovery flock
    crashes \* processes killed so far

vars == <<pc, path, guard, claim, crashes>>

None  == "none"
Stale == "stale"
Recovery == {"reprobe", "remove", "relisten"}
Labels == {"off", "probe", "build", "listen", "claim", "last", "running"} \cup Recovery

ASSUME ProcsAreNamed == None \notin Procs /\ Stale \notin Procs
ASSUME SwitchesTyped == /\ CrashAt \subseteq Labels \ {"off"} /\ QuitAt \subseteq Labels
                         /\ Mishaps \in BOOLEAN

TypeOK == /\ pc \in [Procs -> Labels]
          /\ path \in Procs \cup {None, Stale}
          /\ guard \subseteq Procs
          /\ claim \in Procs \cup {None}
          /\ crashes \in Nat

(* Nobody runs; a crash in an earlier session may have left the socket.      *)
Init == /\ pc = [p \in Procs |-> "off"]
        /\ path \in {None, Stale}
        /\ guard = {} /\ claim = None /\ crashes = 0

Goto(p, l) == pc' = [pc EXCEPT ![p] = l] /\ UNCHANGED crashes
Answered == path \in Procs

-----------------------------------------------------------------------------
Start(p) == pc[p] = "off" /\ Goto(p, "probe") /\ UNCHANGED <<path, guard, claim>>

(* run(): a live owner has been nudged; this launch ends.                    *)
Probe(p) == /\ pc[p] = "probe"
            /\ Goto(p, IF Answered THEN "off" ELSE "build")
            /\ UNCHANGED <<path, guard, claim>>

Build(p) == pc[p] = "build" /\ Goto(p, "listen") /\ UNCHANGED <<path, guard, claim>>

Bind(p) == path' = p /\ guard' = guard \cup {p} /\ Goto(p, "running")

ListenNoRecovery(p) ==
    /\ pc[p] = "listen" /\ UNCHANGED claim
    /\ IF path = None THEN Bind(p) ELSE Goto(p, "off") /\ UNCHANGED <<path, guard>>

(* listen: straight away, else recover an address in use, else unguarded.    *)
Listen(p) ==
    /\ pc[p] = "listen" /\ UNCHANGED claim
    /\ \/ path = None /\ Bind(p)
       \/ path # None /\ Goto(p, "claim") /\ UNCHANGED <<path, guard>>
       \/ Mishaps /\ Goto(p, "last") /\ UNCHANGED <<path, guard>>

(* _claim: one recovery at a time; a launch that waits too long gives up.    *)
NoClaim(p) == /\ pc[p] = "claim" /\ Goto(p, "reprobe") /\ UNCHANGED <<path, guard, claim>>
Claim(p) ==
    /\ pc[p] = "claim"
    /\ \/ claim = None /\ claim' = p /\ Goto(p, "reprobe")
       \/ claim # None /\ Mishaps /\ Goto(p, "last") /\ UNCHANGED claim
    /\ UNCHANGED <<path, guard>>

Reprobe(p) ==
    /\ pc[p] = "reprobe"
    /\ IF Answered THEN Goto(p, "last") /\ claim' = None
                   ELSE Goto(p, "remove") /\ UNCHANGED claim
    /\ UNCHANGED <<path, guard>>

Remove(p) == /\ pc[p] = "remove" /\ path' = None /\ Goto(p, "relisten")
             /\ UNCHANGED <<guard, claim>>

Relisten(p) ==
    /\ pc[p] = "relisten" /\ claim' = None
    /\ IF path = None THEN Bind(p) ELSE Goto(p, "last") /\ UNCHANGED <<path, guard>>

(* run(): the guard worked and someone else has it, or fail open.            *)
Last(p) == /\ pc[p] = "last"
           /\ Goto(p, IF Answered THEN "off" ELSE "running")
           /\ UNCHANGED <<path, guard, claim>>

(* The window closes; a guard it holds unlinks its path.                     *)
Quit(p) == /\ \A q \in Procs : pc[q] \in QuitAt
           /\ pc[p] = "running" /\ Goto(p, "off")
           /\ path' = (IF p \in guard THEN None ELSE path)
           /\ guard' = guard \ {p} /\ UNCHANGED claim

Crash(p) == /\ pc[p] \in CrashAt /\ pc' = [pc EXCEPT ![p] = "off"]
            /\ crashes < MaxCrashes /\ crashes' = crashes + 1
            /\ path' = (IF path = p THEN Stale ELSE path)
            /\ guard' = guard \ {p} /\ claim' = (IF claim = p THEN None ELSE claim)

Launching(p) == \/ Probe(p) \/ Build(p) \/ Listen(p) \/ Claim(p)
                \/ Reprobe(p) \/ Remove(p) \/ Relisten(p) \/ Last(p)

Next == \E p \in Procs : Start(p) \/ Launching(p) \/ Quit(p) \/ Crash(p)

Spec == Init /\ [][Next]_vars

(* A launch that has begun keeps running; a waiting one polls for the claim, *)
(* so it takes it if it keeps coming free.                                   *)
Fairness == \A p \in Procs : WF_vars(Launching(p)) /\ SF_vars(Claim(p))
FairSpec == Spec /\ Fairness

-----------------------------------------------------------------------------
(* INV-3a, INV-3b: no two processes both believe they are the one instance.  *)
OneOwner == \A p, q \in guard : p = q

(* INV-3a: the one owner stays reachable - its socket is the one the path    *)
(* names, so every later launch finds it.                                    *)
OwnerIsReachable == \A p \in guard : path = p /\ pc[p] = "running"

(* INV-3: neither a leftover socket nor launches handing over to each other  *)
(* make the program unlaunchable: who keeps launching it sees a window, and  *)
(* sees one again after closing it.                                          *)
SomebodyRuns == []<>(\E p \in Procs : pc[p] = "probe") => []<>(\E q \in Procs : pc[q] = "running")

(* Nobody waits for ever on anybody: a launch ends up running or hands over. *)
LaunchDecides == \A p \in Procs : (pc[p] = "probe") ~> (pc[p] \in {"running", "off"})

(* A launch settles, and launching it often enough opens a window.           *)
LaunchesSettle == SomebodyRuns /\ LaunchDecides
=============================================================================
