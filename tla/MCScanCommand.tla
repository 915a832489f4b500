--------------------------- MODULE MCScanCommand ----------------------------
(* Every failure of the world around a scan with one format, with two, with the   *)
(* same one twice and with one that is not supported, last and first; and every    *)
(* choice of what is called rules at two levels, with up to two directories added. *)
EXTENDS ScanCommand

OtherCommands ==
  [command : {"none", "version", "help", "unknown"}, flags : {"ok"}, target : {"missing"},
   formats : {<<"markdown">>}, output : {"stdout"}, failOn : {"none"}, rules : {<< >>}]

ScanWith(formatLists, outputs, ruleLists) ==
  [command : {"scan"}, flags : {"ok", "help", "invalid"}, target : {"missing", "ssh", "remote", "local"},
   formats : formatLists, output : outputs, failOn : {"none", "high", "hihg"}, rules : ruleLists]

WorldsWith(gits, roots, levels) ==
  [root : roots, git : gits, cwd : BOOLEAN, levels : levels, worst : {"none", "medium", "high"}]

Nowhere == {<<[packs |-> "none", catalog |-> "none"]>>}
AllGits == {"absent", "no temp dir", "clone fails", "clones"}

MCSituations ==
  [args : OtherCommands, world : WorldsWith({"clones"}, {"walkable"}, Nowhere)]
  \cup
  [args : ScanWith({<<"json">>, <<"json", "sarif">>, <<"cbom", "cbom">>, <<"markdown", "html">>, <<"html">>},
                   {"stdout", "dir", "file"}, {<< >>}),
   world : WorldsWith(AllGits, {"missing", "unwalkable", "walkable"}, Nowhere)]
  \cup
  [args : {a \in ScanWith({<<"json">>}, {"stdout"},
                          UNION {[1..n -> {"unrelated", "valid", "invalid"}] : n \in 0..2}) :
             a.flags = "ok" /\ a.target = "local" /\ a.failOn = "none"},
   world : {w \in WorldsWith({"clones"}, {"walkable"}, [1..2 -> Level]) : w.worst = "high"}]
=============================================================================
