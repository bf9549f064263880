----------------------------- MODULE SharedFile -----------------------------
(***************************************************************************)
(* What the windows can expect of their common settings file: each save    *)
(* either replaces the whole content by the snapshot being saved, or       *)
(* leaves the file alone.  A save is not atomic, the replacement is.  The  *)
(* one exception is a save whose bytes were lost when its temporary file   *)
(* was closed: it replaces the content by a torn one.                      *)
(***************************************************************************)
CONSTANT Writers

VARIABLES content,   \* what a reader finds
          saving,    \* the snapshot each writer is saving, or Nothing
          lost       \* the writers whose snapshot did not reach the disk

fileVars == <<content, saving, lost>>

Nothing == [kind |-> "nothing"]
Missing == [kind |-> "missing"]
Torn == [kind |-> "partial"]

Init == content = Missing /\ saving = [w \in Writers |-> Nothing] /\ lost = {}

Save(w) ==
    /\ saving[w] = Nothing /\ saving'[w] # Nothing
    /\ \A v \in Writers \ {w} : saving'[v] = saving[v]
    /\ UNCHANGED <<content, lost>>

Lose(w) ==
    /\ saving[w] # Nothing
    /\ lost' = lost \cup {w}
    /\ UNCHANGED <<content, saving>>

Replace(w) ==
    /\ saving[w] # Nothing
    /\ content' = IF w \in lost THEN Torn ELSE saving[w]
    /\ saving' = [saving EXCEPT ![w] = Nothing]
    /\ lost' = lost \ {w}

GiveUp(w) ==
    /\ saving[w] # Nothing
    /\ saving' = [saving EXCEPT ![w] = Nothing]
    /\ lost' = lost \ {w}
    /\ UNCHANGED content

Next == \E w \in Writers : Save(w) \/ Lose(w) \/ Replace(w) \/ GiveUp(w)

Spec == Init /\ [][Next]_fileVars
=============================================================================
