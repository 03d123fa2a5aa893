------------------------------ MODULE HostAccess ------------------------------
(***************************************************************************)
(* What sharing a managed server promises, with no rows, locks, queues or  *)
(* recoveries: builds of different projects work on it at the same time,   *)
(* two of one project never do, exclusive work has it alone, a command     *)
(* runs only for a build that is inside, and a build that was let out is   *)
(* never let in again.                                                     *)
(*                                                                         *)
(* CloudBuilds implements this specification.                              *)
(***************************************************************************)
CONSTANTS
  Guests,     \* the builds
  Family      \* the project of each build

VARIABLES
  inside,     \* the builds whose work on the host is not over
  gone,       \* the builds that may never work on it (again)
  alone,      \* exclusive work has the host
  busy        \* the builds with a command asked of the host or running on it

access == <<inside, gone, alone, busy>>

AccessTypeOK ==
  /\ inside \subseteq Guests
  /\ gone \subseteq Guests
  /\ alone \in BOOLEAN
  /\ busy \subseteq inside

AccessInit == inside = {} /\ gone = {} /\ alone = FALSE /\ busy = {}

Enter(g) ==
  /\ ~alone
  /\ g \notin inside \cup gone
  /\ \A h \in inside : Family[h] # Family[g]
  /\ inside' = inside \cup {g}
  /\ UNCHANGED <<gone, alone, busy>>

Start(g) ==
  /\ g \in inside \ busy
  /\ busy' = busy \cup {g}
  /\ UNCHANGED <<inside, gone, alone>>

Stop(g) ==
  /\ busy' = busy \ {g}
  /\ UNCHANGED <<inside, gone, alone>>

(* A build goes out with nothing left running, or never comes in. *)
GoOut(g) ==
  /\ g \notin busy
  /\ inside' = inside \ {g}
  /\ gone' = gone \cup {g}
  /\ UNCHANGED <<alone, busy>>

TakeAlone ==
  /\ inside = {}
  /\ alone' = TRUE
  /\ UNCHANGED <<inside, gone, busy>>

GiveBack ==
  /\ alone' = FALSE
  /\ UNCHANGED <<inside, gone, busy>>

AccessNext ==
  \/ \E g \in Guests : Enter(g) \/ Start(g) \/ Stop(g) \/ GoOut(g)
  \/ TakeAlone \/ GiveBack

AccessSpec == AccessInit /\ [][AccessNext]_access

=============================================================================
