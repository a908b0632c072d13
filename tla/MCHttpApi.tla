----------------------------- MODULE MCHttpApi -----------------------------
(***************************************************************************)
(* Small instances of Cli and HttpApi.                                     *)
(***************************************************************************)
EXTENDS HttpApiProps

CONSTANTS shell, page

(* album: disc1 (t1, t2), disc2 (t1), t1 and a cover; a link; a name with  *)
(* a blank at its end.                                                     *)
MCNames == <<"album", "cover", "disc1", "disc2", "link", "t1", "t1 ", "t2", ".tmp">>
MCTrimmed == [n \in ToSet(MCNames) |-> IF n = "t1 " THEN "t1" ELSE n]
Disc1 == <<"album", "disc1">>
Disc2 == <<"album", "disc2">>
MCPaths == {<<>>, <<"album">>, Disc1, Disc2, Append(Disc1, "t1"), Append(Disc1, "t2"),
            Append(Disc2, "t1"), Append(Disc2, ".tmp"), <<"album", "t1">>, <<"album", "cover">>,
            <<"link">>, <<"t1 ">>}
FullTree == [path \in MCPaths |->
    CASE path \in {<<>>, <<"album">>, Disc1, Disc2} -> "dir"
      [] path = <<"link">> -> "link"
      [] OTHER -> "file"]
EmptyTree == [path \in MCPaths |-> IF path = <<>> THEN "file" ELSE "absent"]
MCTrees == {FullTree, EmptyTree}
MCChanging == {Disc1, Append(Disc1, "t1"), <<"album", "t1">>}

MCCommands ==
    {[verb |-> "status"], [verb |-> "rescan"], [verb |-> "volume", level |-> 50],
     [verb |-> "seek", seconds |-> INFINITE], [verb |-> "seek", seconds |-> 5],
     [verb |-> "list", raw |-> <<>>], [verb |-> "enqueue", raw |-> <<"album", DOT, "disc1", "t1">>],
     [verb |-> "enqueue-dir", raw |-> <<"album">>],
     [verb |-> "queue-remove", id |-> 7, position |-> 1],
     [verb |-> "queue-next", id |-> NONE, position |-> NONE],
     [verb |-> "queue-next", id |-> 7, position |-> 1],
     [verb |-> "queue-move", id |-> 7, to |-> NONE, positions |-> <<0>>],
     [verb |-> "queue-move", id |-> NONE, to |-> NONE, positions |-> <<0, 1>>],
     [verb |-> "queue-move", id |-> 7, to |-> 2, positions |-> <<0>>]}
MCAsks ==
    {[kind |-> "status"], [kind |-> "volume", level |-> 300],
     [kind |-> "file", raw |-> <<"link", "t1">>], [kind |-> "file", raw |-> <<"t1 ">>],
     [kind |-> "directory", raw |-> <<FOREIGN, "album">>]}
=============================================================================
