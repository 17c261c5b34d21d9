------------------------------ MODULE MCStatic ------------------------------
(***************************************************************************)
(* Static on a small tree: /srv/app is the working directory, the static   *)
(* directory "public" is there or in /srv, where it may also be a link to  *)
(* /etc, and links of it lead inside, outside and in a circle.             *)
(***************************************************************************)
EXTENDS Static, TLC

In == <<"srv", "public">>
FileSystem(near, far, a, index, link) ==
    (<<"srv">> :> Dir) @@ (<<"srv", "app">> :> Dir)
 @@ (<<"srv", "app", "public">> :> near) @@ (In :> far)
 @@ (Append(In, "index.html") :> File) @@ (Append(In, "a") :> a)
 @@ (Append(In, "d") :> Dir) @@ (In \o <<"d", "index.html">> :> index)
 @@ (Append(In, "l") :> link)
 @@ (<<"etc">> :> Dir) @@ (<<"etc", "f">> :> File)
 @@ (<<"etc", "a">> :> File) @@ (<<"etc", "index.html">> :> File)
MCFileSystems ==
    {FileSystem(near, far, a, index, link) :
        near \in {Nothing, Dir}, far \in {Nothing, Dir, Link(<<"etc">>)},
        a \in {Nothing, File},
        index \in {Nothing, Dir, File, Link(<<"etc">>), Link(<<"etc", "f">>)},
        link \in {Link(Append(In, "l")), Link(Append(In, "d")),
                  Link(<<"etc", "f">>)}}
MCWd == <<"srv", "app">>
MCDirs == {[abs |-> FALSE, path |-> <<"public">>], [abs |-> TRUE, path |-> In]}

Names == {"a", "d", "l", "..", ".", "", "%", ":"}
Rels == {<<x>> : x \in Names} \cup {<<x, y>> : x, y \in Names}
          \cup {<<x, y, z>> : x \in {"d", ".."}, y \in {"..", "."}, z \in {"..", "a"}}
Gets == {<<"">>, <<"health">>, <<"static">>} \cup {<<"static">> \o r : r \in Rels}
MCRequests ==
    {[method |-> "GET", path |-> p] : p \in Gets}
      \cup {[method |-> "POST", path |-> p] :
                p \in {<<"submit">>, <<"static", "a">>}}
=============================================================================
