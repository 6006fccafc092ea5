------------------------------ MODULE MCLoadOrder ------------------------------
(* Four addons: core, an addon that requires core, another that takes it    *)
(* when it is there, and an archive with the id of a directory.             *)
EXTENDS LoadOrder

Manifest(id, version, deps) ==
  [id |-> id, version |-> version, readable |-> TRUE, deps |-> deps]
Needs(id, accepts) == [id |-> id, accepts |-> accepts, optional |-> FALSE]
Likes(id, accepts) == [id |-> id, accepts |-> accepts, optional |-> TRUE]

MCEntry == {"core", "tools", "tools.tar.zstd", "skin", "loop", "broken"}
MCAddon ==
  [e \in MCEntry |->
     CASE e = "core" -> Manifest("core", 1, {})
       [] e = "tools" -> Manifest("tools", 1, {Needs("core", {1}), Needs("gone", {1})})
       [] e = "tools.tar.zstd" -> Manifest("tools", 2, {Needs("core", {1})})
       [] e = "skin" -> Manifest("skin", 1, {Likes("tools", {1})})
       [] e = "loop" -> Manifest("core", 2, {Likes("skin", {1})})
       [] e = "broken" -> [Manifest("broken", 1, {}) EXCEPT !.readable = FALSE]]
MCParsed ==
  [t \in {"skin@1", "core@1", "tools@2", "skin"} |->
     CASE t = "skin@1" -> [id |-> "skin", accepts |-> {1}]
       [] t = "core@1" -> [id |-> "core", accepts |-> {1}]
       [] t = "tools@2" -> [id |-> "tools", accepts |-> {2}]
       [] t = "skin" -> Malformed]
MCDirectories ==
  {{}, {"core", "tools", "skin"}, {"core", "tools", "tools.tar.zstd"},
   {"tools", "skin", "loop", "broken"}}

MCLaunches ==
  {[NoLaunch EXCEPT !.dryRun = TRUE],
   [NoLaunch EXCEPT !.noDeps = TRUE, !.disable = {"core"}],
   [NoLaunch EXCEPT !.safe = TRUE],
   [NoLaunch EXCEPT !.order = <<"skin@1", "core@1", "skin@1">>],
   [NoLaunch EXCEPT !.order = <<"skin@1", "tools@2">>, !.force = TRUE],
   [NoLaunch EXCEPT !.order = <<"skin">>, !.env = <<"core@1">>],
   [NoLaunch EXCEPT !.profile = TRUE, !.save = TRUE, !.addon = {"core", "skin", "skin@1"},
                    !.order = <<"skin@1", "core@1">>],
   [NoLaunch EXCEPT !.profile = TRUE, !.disable = {"tools"}],
   NoLaunch}
MCProfiles ==
  {[enabled |-> {"core", "tools", "skin"}, disabled |-> {}, order |-> None],
   [enabled |-> {"core", "tools", "skin"}, disabled |-> {"skin"}, order |-> <<"skin">>],
   [enabled |-> {"core", "skin"}, disabled |-> {}, order |-> <<"skin">>]}
=============================================================================
