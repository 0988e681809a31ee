---- MODULE MCEntryPanes ----
(* A root that lists one entry, that entry, and one that is not yet born. *)
EXTENDS EntryPanes
CONSTANTS root, ref, born, t0, t1, t2

Written(t, one, many, e) == [title |-> t, one |-> one, many |-> many, of |-> e]

MCStore == [e \in Entries |->
    CASE e = root -> [draft |-> None, live |-> Written(t0, None, {ref}, root)]
      [] e = ref  -> [draft |-> Written(t1, None, {}, ref), live |-> None]
      [] OTHER    -> Unborn]

MCStacks == {<<root>>, <<New>>}
====
