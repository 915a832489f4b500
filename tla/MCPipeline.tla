----------------------------- MODULE MCPipeline -----------------------------
(* Four files, one of them a manifest and one that no detector handles.  The    *)
(* source detector finds two things in one file, which differ only in their     *)
(* identifiers, and reports them in the wrong order; the manifest yields a      *)
(* finding and a warning; the last file only a warning.                         *)
EXTENDS Pipeline

F(p, l, c, r, i) == [path |-> p, line |-> l, column |-> c, rule |-> r, id |-> i, body |-> 0]

MCFiles == <<1, 2, 3, 4>>
MCDetectors == <<"deps", "source">>
MCHandles == {<<1, "deps">>, <<2, "source">>, <<4, "source">>}
MCEmits ==
  [h \in MCHandles |->
     CASE h[1] = 1 -> <<F(1, 5, 0, 1, 9)>>
       [] h[1] = 2 -> <<F(2, 4, 7, 3, 8), F(2, 4, 7, 3, 2)>>
       [] OTHER    -> << >>]
MCComplains == [h \in MCHandles |-> IF h[1] = 2 THEN 0 ELSE 7 - h[1]]
=============================================================================
