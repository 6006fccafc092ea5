---------------------------- MODULE PatchRegistry ----------------------------
(***************************************************************************)
(* What the wrapper's patch storage promises its callers, with slots,      *)
(* generations and memory left out: a request to apply a patch either      *)
(* returns a handle no earlier request has returned, or the invalid        *)
(* handle; a request to remove a handle succeeds exactly when the patch it *)
(* was returned for is still applied.                                      *)
(***************************************************************************)
CONSTANTS
  Handle,         \* every value a caller may hold as a handle
  InvalidHandle   \* storage::g_invalidHandle

VARIABLES
  live,           \* handles of the patches that are applied
  retired,        \* handles whose patch was removed
  result          \* what the last call returned

vars == <<live, retired, result>>

NoCall == [op |-> "none"]
Made(h) == [op |-> "make", handle |-> h]
Removed(h, ok) == [op |-> "remove", handle |-> h, ok |-> ok]

Init ==
  /\ live = {}
  /\ retired = {}
  /\ result = NoCall

Make(h) ==
  /\ h \in Handle \ (live \cup retired \cup {InvalidHandle})
  /\ live' = live \cup {h}
  /\ result' = Made(h)
  /\ UNCHANGED retired

RefuseMake ==
  /\ result' = Made(InvalidHandle)
  /\ UNCHANGED <<live, retired>>

Remove(h) ==
  /\ h \in live
  /\ live' = live \ {h}
  /\ retired' = retired \cup {h}
  /\ result' = Removed(h, TRUE)

RefuseRemove(h) ==
  /\ h \in Handle \ live
  /\ result' = Removed(h, FALSE)
  /\ UNCHANGED <<live, retired>>

Next ==
  \/ \E h \in Handle : Make(h) \/ Remove(h) \/ RefuseRemove(h)
  \/ RefuseMake

Spec == Init /\ [][Next]_vars
=============================================================================
