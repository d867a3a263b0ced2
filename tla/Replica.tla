------------------------------- MODULE Replica -------------------------------
(* What the sync protocol promises a device: a refresh makes its view of the *)
(* account the present one on every file it has not missed a change of.      *)
CONSTANTS Device, File

VARIABLES
  live,   \* files the account has
  view,   \* what each device believes the account has
  missed  \* files a change of which was under way when the device asked, and
          \* was not reported since

vars == <<live, view, missed>>

Init ==
  /\ live = {}
  /\ view = [d \in Device |-> {}]
  /\ missed = [d \in Device |-> {}]

\* A change of f may be missed by any device, and is no change of others.
Change(f) ==
  /\ \A d \in Device : missed'[d] \ {f} = missed[d] \ {f}
  /\ UNCHANGED view

Add(f) == f \notin live /\ live' = live \cup {f} /\ Change(f)

Drop(f) == f \in live /\ live' = live \ {f} /\ Change(f)

\* A refresh misses nothing new.
Refresh(d) ==
  /\ \A e \in Device \ {d} : view'[e] = view[e] /\ missed'[e] = missed[e]
  /\ missed'[d] \subseteq missed[d]
  /\ view'[d] \ missed'[d] = live \ missed'[d]
  /\ view[d] \cap live \subseteq view'[d] /\ view'[d] \subseteq view[d] \cup live
  /\ UNCHANGED live

Next ==
  \/ \E f \in File : Add(f) \/ Drop(f)
  \/ \E d \in Device : Refresh(d)

Spec == Init /\ [][Next]_vars
=============================================================================
