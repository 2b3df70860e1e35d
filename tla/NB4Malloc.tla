------------------------------- MODULE NB4Malloc -------------------------------
(***************************************************************************)
(* The bunch-based allocator as its callers use it: the malloc layer over  *)
(* the node protocol of NB4Lvl (allocators/4lvl-nb/nballoc.c).           *)
(***************************************************************************)
EXTENDS NB4Lvl, MallocLayer

allvars == <<vars, mvars>>

MallocStart == Init /\ MallocInit

(* Outside the node protocol. *)
Outside(t) == At(t, "idle") /\ UNCHANGED vars

MallocStep(t) ==
  \/ ChooseStart(t) /\ Outside(t)
  \/ TryNode(t) /\ AllocStart(t, actual[t])
  \/ MallocReturn(t) /\ AllocReturn(t)
  \/ MallocNextNode(t) /\ AllocReturn(t)
  \/ MallocReturnNull(t) /\ AllocReturn(t)
  \/ FreeEnds(t) /\ FreeReturn(t)
  \/ Inside(t) /\ UNCHANGED mvars

MallocNext ==
  \E t \in Threads :
    \/ \E request \in Requests : MallocCall(t, request) /\ Outside(t)
    \/ \E request \in Requests : MallocTooLarge(t, request) /\ Outside(t)
    \/ \E r \in given : FreeCall(t, r) /\ FreeStart(t, free_tree[r.addr])
    \/ MallocStep(t)

MallocSpec == MallocStart /\ [][MallocNext]_allvars
=============================================================================
