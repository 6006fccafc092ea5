------------------------------ MODULE MCHotReload ------------------------------
(* One addon with patch.jsonc, main.luau, a file main.luau may require, an  *)
(* asset and the cache of converted assets.                                 *)
EXTENDS HotReload

Text(v, req) == [version |-> v, valid |-> TRUE, requires |-> req]
Broken(v) == [version |-> v, valid |-> FALSE, requires |-> {}]

MCFile == {"patch", "main", "lib", "asset", "cache"}
MCContents ==
  [f \in MCFile |->
     CASE f = "patch" -> {Text(2, {})}
       [] f = "main" -> {Text(1, {}), Text(2, {"lib"}), Broken(3)}
       [] f = "lib" -> {Text(1, {}), Text(2, {})}
       [] f = "asset" -> {Text(2, {})}
       [] f = "cache" -> {Text(1, {}), Text(2, {})}]
MCSaved ==
  [f \in MCFile |-> IF f = "cache" THEN Missing ELSE Text(1, {})]
=============================================================================
