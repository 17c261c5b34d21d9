------------------------------- MODULE Static -------------------------------
(***************************************************************************)
(* The router of core/router.go and the handlers of cmd/server/main.go     *)
(* that read files: serveIndexPage for / and secureStaticHandler for       *)
(* /static/, on a file system that is being deployed to meanwhile.         *)
(*                                                                         *)
(* A path is the sequence of its components, so "/static/a/" is            *)
(* <<"static", "a", "">>.  Below /static/ it is the one after              *)
(* percent-decoding; a component "%" cannot be decoded and a component ":" *)
(* has a character that is refused (backslash, colon, control character).  *)
(* EvalSymlinks, Stat and ReadFile are one step each, and between any two  *)
(* of them files, directories and links may come, go and be replaced.      *)
(***************************************************************************)
EXTENDS Naturals, Sequences, SequencesExt, FiniteSets

CONSTANTS FileSystems, \* what the disk may hold: functions from paths to nodes
          Wd,          \* the working directory
          Dirs,        \* values of MTWS_STATIC_DIR
          Requests,    \* requests a client may make
          MaxUp,       \* directories resolveStaticRoot looks up: 6
          MaxLinks,    \* links EvalSymlinks follows: 255
          MaxChanges   \* bound on the changes of the file system

Paths == Seq(STRING)

\* Deployments come and go at known places: what is not there is "none".
\* (Every string literal is a STRING; the provers have to be told.)
ASSUME StaticAssumption ==
    /\ {MaxUp, MaxLinks, MaxChanges} \subseteq Nat
    /\ Wd \in Paths /\ "index.html" \in STRING
    /\ \A d \in Dirs : d.abs \in BOOLEAN /\ d.path \in Paths
    /\ \A r \in Requests : /\ r.method \in {"GET", "POST"}
                           /\ r.path \in Paths /\ Len(r.path) > 0
    /\ \A f \in FileSystems :
          /\ \A g \in FileSystems : DOMAIN f = DOMAIN g
          /\ \A p \in DOMAIN f : /\ f[p].is \in {"none", "file", "dir", "link"}
                                 /\ f[p].is = "link" => f[p].to \in Paths

VARIABLES pc, dir, root, fs, rq,
          target,   \* the local variable resolved
          status,   \* the code answered, 0 before
          body,     \* the file whose content was sent
          changes,  \* changes of fs so far
          quiet,    \* nothing changed or failed since the request came
          relinked  \* a link came, went or moved since the last check

vars == <<pc, dir, root, fs, rq, target, status, body, changes, quiet, relinked>>

-----------------------------------------------------------------------------
(* The operating system and path/filepath.                                 *)

\* A node is of a kind; a link also says where it leads.
Nothing == [is |-> "none"]
File == [is |-> "file"]
Dir == [is |-> "dir"]
Link(p) == [is |-> "link", to |-> p]
Node(p) == IF p = <<>> THEN Dir
           ELSE IF p \in DOMAIN fs THEN fs[p] ELSE Nothing
Kind(p) == Node(p).is
Found(p) == [err |-> "", path |-> p]
Failed(err) == [err |-> err, path |-> <<>>]
IOError == Failed("io")

\* Where a path leads on through directories no more.
Stops(p) == {k \in 1 .. Len(p) : Kind(SubSeq(p, 1, k)) # "dir"}

\* A link is replaced by what it says, and the walk begins again.
Walk[links \in Nat] ==
    [p \in Paths |->
        LET k    == Min(Stops(p))
            at   == SubSeq(p, 1, k)
            rest == SubSeq(p, k + 1, Len(p))
        IN  IF Stops(p) = {} THEN Found(p)
            ELSE IF Kind(at) = "none" THEN Failed("notExist")
            ELSE IF Kind(at) = "file"
            THEN IF rest = <<>> THEN Found(p) ELSE Failed("notDir")
            ELSE IF links = 0 THEN Failed("loop")
            ELSE Walk[links - 1][Node(at).to \o rest]]

EvalSymlinks(p) == Walk[MaxLinks][p]
IsFile(r) == r.err = "" /\ Kind(r.path) = "file"
IsDir(r) == r.err = "" /\ Kind(r.path) = "dir"

CleanStep(done, c) ==
    CASE c \in {"", "."} -> done
      [] c = ".." /\ done # <<>> /\ Last(done) # ".." -> Front(done)
      [] OTHER -> Append(done, c)
CleanTo(p) ==
    LET done[k \in 0 .. Len(p)] ==
            IF k = 0 THEN <<>> ELSE CleanStep(done[k - 1], p[k])
    IN  done
Clean(p) == CleanTo(p)[Len(p)]

-----------------------------------------------------------------------------
(* The checks.                                                             *)

\* Faulty variant of IsSafeStaticPath: only the first component is looked at.
IsSafeShallow(p) ==
    /\ \A i \in 1 .. Len(p) : p[i] \notin {"%", ":"}
    /\ p[1] \notin {"", ".."}

\* url.PathUnescape and isSafeStaticPath.
IsSafeStaticPath(p) ==
    /\ \A i \in 1 .. Len(p) : p[i] \notin {"%", ":"}
    /\ ~(p[1] = "" /\ Len(p) > 1)
    /\ Clean(p) # <<>> => Clean(p)[1] # ".."

\* Faulty variant: the link is trusted.
IsWithinAnything(r, p) == TRUE
IsWithinRoot(r, p) == IsPrefix(r, p)

\* resolveStaticRoot: an absolute directory as it is; a relative one in the
\* working directory or the nearest of its parents that has it.
ResolveStaticRoot(d) ==
    IF d.abs THEN EvalSymlinks(d.path)
    ELSE LET up(i) == SubSeq(Wd, 1, Len(Wd) - i) \o d.path
             has == {i \in 0 .. MaxUp - 1 :
                        i <= Len(Wd) /\ IsDir(EvalSymlinks(up(i)))}
         IN  IF has = {} THEN EvalSymlinks(up(0))
             ELSE EvalSymlinks(up(CHOOSE i \in has : \A j \in has : i <= j))

-----------------------------------------------------------------------------
Init ==
    /\ pc = "boot"
    /\ dir \in Dirs
    /\ root = IOError
    /\ fs \in FileSystems
    /\ rq \in Requests
    /\ target = <<>>
    /\ status = 0
    /\ body = <<>>
    /\ changes = 0
    /\ quiet = TRUE
    /\ relinked = FALSE

\* secureStaticHandler resolves the root once, when the router is built.
Boot ==
    /\ pc = "boot"
    /\ root' = ResolveStaticRoot(dir)
    /\ pc' = "idle"
    /\ UNCHANGED <<dir, fs, rq, target, status, body, changes, quiet, relinked>>

\* Somebody changes the files: what is there, and where links lead.
Moves(f) == \E p \in DOMAIN f : f[p] # fs[p] /\ "link" \in {f[p].is, fs[p].is}
Deploy(f) ==
    /\ pc \notin {"boot", "done"}
    /\ changes < MaxChanges
    /\ f # fs
    /\ fs' = f
    /\ changes' = changes + 1
    /\ quiet' = (pc = "idle")
    /\ relinked' = (relinked \/ Moves(f))
    /\ UNCHANGED <<pc, dir, root, rq, target, status, body>>

Goto(label) == pc' = label /\ UNCHANGED <<status, body>>
Answer(code) == pc' = "done" /\ status' = code /\ UNCHANGED body
Send(p) == pc' = "done" /\ status' = 200 /\ body' = p

\* Router.ServeHTTP: exact routes, then prefixes, then 404.  /submit stands
\* for itself, /health for the other pages without files.
IsStatic(p) == p[1] = "static" /\ Len(p) > 1
Exact == {<<"">>, <<"health">>, <<"submit">>}
MethodOf(p) == IF p = <<"submit">> THEN "POST" ELSE "GET"
Relative == LET p == Tail(rq.path) IN IF p = <<"">> THEN <<"index.html">> ELSE p

ServeHTTP ==
    LET p == rq.path
    IN  /\ pc = "idle"
        /\ \/ p \notin Exact /\ ~IsStatic(p) /\ Answer(404)
           \/ /\ p \in Exact \/ IsStatic(p)
              /\ \/ rq.method # MethodOf(p) /\ Answer(405)
                 \/ /\ rq.method = MethodOf(p)
                    /\ \/ p = <<"">> /\ Goto("index")
                       \/ p \in Exact \ {<<"">>} /\ Answer(200)
                       \/ IsStatic(p) /\ Goto("check")
        /\ UNCHANGED <<dir, root, fs, rq, target, changes, quiet, relinked>>

\* secureStaticHandler: the checks before the file system is touched.
Check ==
    /\ pc = "check"
    /\ IF ~IsSafeStaticPath(Relative) THEN Answer(400)
       ELSE IF root.err # "" THEN Answer(500) ELSE Goto("resolve")
    /\ target' = root.path \o Clean(Relative)
    /\ UNCHANGED <<dir, root, fs, rq, changes, quiet, relinked>>

\* EvalSymlinks of the candidate, or of the index in a directory.
Resolve(next) ==
    \E r \in {EvalSymlinks(target), IOError} :
        /\ \/ r.err = "notExist" /\ Answer(404) /\ UNCHANGED target
           \/ r.err \notin {"", "notExist"} /\ Answer(500) /\ UNCHANGED target
           \/ /\ r.err = ""
              /\ target' = r.path
              /\ IF IsWithinRoot(root.path, r.path) THEN Goto(next)
                 ELSE Answer(403)
        /\ quiet' = (quiet /\ r # IOError)
        /\ relinked' = FALSE
        /\ UNCHANGED <<dir, root, fs, rq, changes>>

ResolveFile == pc = "resolve" /\ Resolve("stat")
ResolveIndex == pc = "resolveIndex" /\ Resolve("statIndex")

\* Faulty variant: directories have no index.
StatFileOnly ==
    /\ pc = "stat"
    /\ IF IsFile(EvalSymlinks(target)) THEN Goto("read") ELSE Answer(404)
    /\ UNCHANGED <<dir, root, fs, rq, target, changes, quiet, relinked>>

\* os.Stat: a directory stands for its index.html.
StatFile ==
    /\ pc = "stat"
    /\ \E r \in {EvalSymlinks(target), IOError} :
        /\ \/ r.err = "notExist" /\ Answer(404) /\ UNCHANGED target
           \/ r.err \notin {"", "notExist"} /\ Answer(500) /\ UNCHANGED target
           \/ IsFile(r) /\ Goto("read") /\ UNCHANGED target
           \/ IsDir(r) /\ Goto("resolveIndex")
              /\ target' = Append(target, "index.html")
        /\ quiet' = (quiet /\ r # IOError)
    /\ UNCHANGED <<dir, root, fs, rq, changes, relinked>>

StatIndex ==
    /\ pc = "statIndex"
    /\ \E r \in {EvalSymlinks(target), IOError} :
        /\ IF IsFile(r) THEN Goto("read") ELSE Answer(404)
        /\ quiet' = (quiet /\ r # IOError)
    /\ UNCHANGED <<dir, root, fs, rq, target, changes, relinked>>

ReadFile ==
    /\ pc = "read"
    /\ \E r \in {EvalSymlinks(target), IOError} :
        /\ IF IsFile(r) THEN Send(r.path) ELSE Answer(500)
        /\ quiet' = (quiet /\ r # IOError)
    /\ UNCHANGED <<dir, root, fs, rq, target, changes, relinked>>

\* serveIndexPage resolves the root anew, and reads what is there.
IndexRoot == ResolveStaticRoot(dir)
FindIndex ==
    /\ pc = "index"
    /\ \E r \in {IndexRoot, IOError} :
        /\ IF r.err = "" THEN Goto("readIndex") ELSE Answer(500)
        /\ target' = Append(r.path, "index.html")
        /\ quiet' = (quiet /\ r # IOError)
    /\ UNCHANGED <<dir, root, fs, rq, changes, relinked>>

ReadIndex ==
    /\ pc = "readIndex"
    /\ \E r \in {EvalSymlinks(target), IOError} :
        /\ \/ r.err = "notExist" /\ Answer(404)
           \/ r.err # "notExist" /\ ~IsFile(r) /\ Answer(500)
           \/ IsFile(r) /\ Send(r.path)
        /\ quiet' = (quiet /\ r # IOError)
    /\ UNCHANGED <<dir, root, fs, rq, target, changes, relinked>>

Done == pc = "done" /\ UNCHANGED vars

Next ==
    \/ Boot \/ (\E f \in FileSystems : Deploy(f))
    \/ ServeHTTP \/ Check \/ ResolveFile \/ StatFile \/ ResolveIndex
    \/ StatIndex \/ ReadFile \/ FindIndex \/ ReadIndex \/ Done

Spec == Init /\ [][Next]_vars

-----------------------------------------------------------------------------
(* Properties.                                                             *)

\* The type of every variable; only a 200 has a body.
TypeOK ==
    /\ pc \in {"boot", "idle", "check", "resolve", "stat", "resolveIndex",
               "statIndex", "read", "index", "readIndex", "done"}
    /\ dir \in Dirs /\ rq \in Requests
    /\ root.err \in {"", "notExist", "notDir", "loop", "io"}
    /\ status \in {0, 200, 400, 403, 404, 405, 500}
    /\ body # <<>> => status = 200 /\ Kind(body) = "file"
    /\ changes \in 0 .. MaxChanges

Served == pc = "done" /\ IsStatic(rq.path) /\ rq.method = "GET"

\* What /static/ sends is a file.  It is one below the root resolved at the
\* start (or that root itself, if a file was configured), wherever links in the
\* directory or its index.html lead and whatever comes and goes between the
\* checks and the read, unless a link is made, moved or removed just then.
\* serveIndexPage does not keep that root: it shows the index.html of the
\* directory the setting names when the request comes, wherever that page is.
ServedFromRoot ==
    /\ TypeOK
    /\ Served /\ status = 200 =>
          Kind(body) = "file" /\ (~relinked => IsPrefix(root.path, body))
    /\ pc = "done" /\ rq = [method |-> "GET", path |-> <<"">>] /\ quiet =>
          LET index == EvalSymlinks(Append(IndexRoot.path, "index.html"))
          IN  /\ status = 200 <=> IndexRoot.err = "" /\ IsFile(index)
              /\ status = 200 => body = index.path

\* "Static paths containing ... symlinks escaping the root" are rejected, and
\* /static/ "serves files from the configured static root only" (the list of
\* docs/http-compliance.md).  The real path is checked, and then the name is
\* opened: a link put there in between is followed.
SymlinksDoNotEscape == Served /\ status = 200 => IsPrefix(root.path, body)

\* The test on the cleaned path refuses exactly the paths of which some
\* beginning leads above the root, besides absolute ones and those with a
\* refused character.
ClimbsOut(p) ==
    \E k \in 1 .. Len(p) :
        Cardinality({i \in 1 .. k : p[i] = ".."})
          > Cardinality({i \in 1 .. k : p[i] \notin {"", ".", ".."}})
SafePathIsRight ==
    Served => (status = 400 <=> \/ ClimbsOut(Relative)
                                \/ Len(Relative) > 1 /\ Head(Relative) = ""
                                \/ \E i \in 1 .. Len(Relative) :
                                      Relative[i] \in {"%", ":"})

\* With nothing in the way a file is served if and only if there is one: the
\* name, or the index.html of the directory it names, is a file whose real
\* path and whose directory's real path are below the root.
FoundIffThere ==
    Served /\ quiet /\ status \notin {400, 0} =>
        LET named == EvalSymlinks(root.path \o Clean(Relative))
            index == EvalSymlinks(Append(named.path, "index.html"))
            below(r) == IsPrefix(root.path, r.path)
            found == IF root.err # "" \/ named.err # "" \/ ~below(named) THEN <<>>
                     ELSE IF IsFile(named) THEN named.path
                     ELSE IF IsFile(index) /\ below(index) THEN index.path
                     ELSE <<>>
        IN  body = found /\ (status = 200 <=> found # <<>>)
=============================================================================
