------------------------------ MODULE Startup -------------------------------
(***************************************************************************)
(* How a server comes to listen: the WAF policy of security/waf/policy.go  *)
(* (read when package http is initialised), the environment of             *)
(* config/config.go, run and listen of cmd/server/main.go, and             *)
(* cmd/certgen, which may be writing the two TLS files at the same time,   *)
(* fail half-way or be killed.                                             *)
(*                                                                         *)
(* A variable of the environment is a record: "unset" (or blank), "junk"   *)
(* (does not parse), "number" with its value, or "nan", which parses as a  *)
(* float only.  A file of the TLS pair is missing, partly written, or the  *)
(* number of the key pair it belongs to.  Starts of the server are         *)
(* repeated; one certgen runs at a time.                                   *)
(***************************************************************************)
EXTENDS Integers, Sequences, FiniteSets

CONSTANTS Envs,         \* environments the server may be started in
          Policies,     \* policy files: sequences of the kinds of their lines
          Fallback,     \* the built-in default of a number or duration
          MaxPairs,     \* bound on the key pairs generated
          MaxStarts     \* bound on the starts of the server

ASSUME StartupAssumption ==
    /\ Fallback \in Nat \ {0}
    /\ {MaxPairs, MaxStarts} \subseteq Nat
    /\ Policies \subseteq Seq({"rule", "comment", "blank", "tooLong"})
    /\ \A e \in Envs :
          /\ e.cert \in BOOLEAN /\ e.key \in BOOLEAN
          /\ e.capacity.is = "number" => e.capacity.v \in Int

VARIABLES pc,        \* the server process
          env,       \* its environment
          policy,    \* the lines of its policy file
          next,      \* the line that is scanned next
          patterns,  \* the patterns read so far, by their lines
          cfg,       \* config.Load()
          pair,      \* the certificate and the key it has loaded
          starts,    \* starts so far
          gen,       \* the certgen process
          force,     \* its -force flag
          file,      \* file["cert"], file["key"]
          pairs      \* key pairs generated so far

vars == <<pc, env, policy, next, patterns, cfg, pair, starts, gen, force,
          file, pairs>>
genVars == <<gen, force, file, pairs>>
policyVars == <<env, policy, next, patterns, starts>>

Unset == [is |-> "unset"]
Number(n) == [is |-> "number", v |-> n]
NoFile == 0
Partial == -1
Files == {"cert", "key"}
None == [f \in Files |-> NoFile]

Init ==
    /\ pc = "off" /\ env \in Envs /\ policy \in Policies /\ next = 1
    /\ patterns = {} /\ cfg = [size |-> 0] /\ pair = None /\ starts = 0
    /\ gen = "off" /\ force = FALSE /\ file = None /\ pairs = 0

Goto(label) == pc' = label

-----------------------------------------------------------------------------
(* The policy: LoadPatterns and LoadPatternsFile.                          *)

Default == {0}      \* the built-in patterns, as the patterns of "line" 0
Rules == {i \in 1 .. Len(policy) : policy[i] = "rule"}

Start(e, p) ==
    /\ pc = "off" /\ starts < MaxStarts
    /\ env' = e /\ policy' = p /\ next' = 1 /\ patterns' = {}
    /\ starts' = starts + 1
    /\ pair' = None
    /\ Goto("policy")
    /\ UNCHANGED <<cfg, genVars>>

\* No policy file, one that cannot be opened, or a read that fails.
PolicyFails ==
    /\ pc = "policy"
    /\ patterns' = Default
    /\ Goto("config")
    /\ UNCHANGED <<env, policy, next, starts, cfg, pair, genVars>>

\* Faulty variant: what was read before a line that is too long is used.
ScanKeepsPart ==
    /\ pc = "policy" /\ next <= Len(policy)
    /\ patterns' = IF policy[next] = "rule" THEN patterns \cup {next} ELSE patterns
    /\ IF policy[next] = "tooLong" THEN Goto("config") ELSE Goto("policy")
    /\ next' = next + 1
    /\ UNCHANGED <<env, policy, starts, cfg, pair, genVars>>

\* scanner.Scan(): comments and blank lines are left out, a line longer than
\* its buffer is an error, and an error means the defaults.
Scan ==
    /\ pc = "policy" /\ next <= Len(policy)
    /\ \/ /\ policy[next] # "tooLong"
          /\ patterns' = IF policy[next] = "rule" THEN patterns \cup {next}
                                                  ELSE patterns
          /\ Goto("policy")
       \/ policy[next] = "tooLong" /\ patterns' = Default /\ Goto("config")
    /\ next' = next + 1
    /\ UNCHANGED <<env, policy, starts, cfg, pair, genVars>>

\* The end of the file; a file without patterns means the defaults.
ScanEnds ==
    /\ pc = "policy" /\ next > Len(policy)
    /\ patterns' = IF patterns = {} THEN Default ELSE patterns
    /\ Goto("config")
    /\ UNCHANGED <<env, policy, next, starts, cfg, pair, genVars>>

-----------------------------------------------------------------------------
(* The configuration.                                                      *)

\* envInt and envDuration.
EnvInt(raw) == IF raw.is = "number" /\ raw.v > 0 THEN raw.v ELSE Fallback

\* envFloat refuses what is below zero, envPositiveFloat what is not above
\* it; no comparison with NaN is true.
EnvFloat(raw) ==
    CASE raw.is \in {"unset", "junk"} -> Number(Fallback)
      [] raw.is = "number" -> IF raw.v < 0 THEN Number(Fallback) ELSE raw
      [] OTHER -> raw
EnvPositiveFloat(raw) ==
    IF EnvFloat(raw).is = "number" /\ EnvFloat(raw).v <= 0
    THEN Number(Fallback) ELSE EnvFloat(raw)

EnvBool(raw) == raw \in {"1", "true", "yes", "on"}

Load ==
    /\ pc = "config"
    /\ cfg' = [size |-> EnvInt(env.size), timeout |-> EnvInt(env.timeout),
               capacity |-> EnvPositiveFloat(env.capacity),
               limited |-> ~EnvBool(env.disabled) /\ ~EnvBool(env.benchmark),
               cert |-> env.cert, key |-> env.key]
    /\ Goto("run")
    /\ UNCHANGED <<policyVars, pair, genVars>>

-----------------------------------------------------------------------------
(* run and listen.                                                         *)

TLSEnabled == cfg.cert /\ cfg.key

\* Faulty variant: half a configuration is taken for none.
TLSPartiallyIgnored == FALSE
TLSPartiallyConfigured == cfg.cert # cfg.key

Run ==
    /\ pc = "run"
    /\ \/ TLSPartiallyConfigured /\ Goto("failed")
       \/ ~TLSPartiallyConfigured /\ TLSEnabled /\ Goto("loadCert")
       \/ ~TLSPartiallyConfigured /\ ~TLSEnabled /\ pc' \in {"plain", "failed"}
    /\ UNCHANGED <<policyVars, cfg, pair, genVars>>

\* tls.LoadX509KeyPair reads one file after the other and then compares.
LoadCert ==
    /\ pc = "loadCert"
    /\ pair' = [pair EXCEPT !["cert"] = file["cert"]]
    /\ Goto("loadKey")
    /\ UNCHANGED <<policyVars, cfg, genVars>>
LoadKey ==
    /\ pc = "loadKey"
    /\ pair' = [pair EXCEPT !["key"] = file["key"]]
    /\ Goto("match")
    /\ UNCHANGED <<policyVars, cfg, genVars>>
Matches == pair["cert"] = pair["key"] /\ pair["cert"] \notin {NoFile, Partial}
Listen ==
    /\ pc = "match"
    /\ \/ ~Matches /\ Goto("failed")
       \/ Matches /\ pc' \in {"tls", "failed"}
    /\ UNCHANGED <<policyVars, cfg, pair, genVars>>

\* The process ends, by itself or stopped by its operator.
ServerExit ==
    /\ pc \in {"plain", "tls", "failed"}
    /\ Goto("off")
    /\ UNCHANGED <<policyVars, cfg, pair, genVars>>

-----------------------------------------------------------------------------
(* certgen.                                                                *)

serverVars == <<pc, policyVars, cfg, pair>>
Opened(f) == IF f = "cert" THEN "certOpen" ELSE "keyOpen"

\* Faulty variant: only a complete pair counts as existing.
OutputExistsBoth == file["cert"] # NoFile /\ file["key"] # NoFile
OutputExists == file["cert"] # NoFile \/ file["key"] # NoFile

\* Flags are parsed, existing files respected, a pair is generated.
Generate(f) ==
    /\ gen \in {"off", "done"} /\ pairs < MaxPairs
    /\ force' = f
    /\ IF f \/ ~OutputExists THEN gen' = "cert" /\ pairs' = pairs + 1
       ELSE gen' = "off" /\ UNCHANGED pairs
    /\ UNCHANGED <<serverVars, file>>

\* os.WriteFile truncates the file, then writes it.
Truncate(f) ==
    /\ gen = f
    /\ file' = [file EXCEPT ![f] = Partial]
    /\ gen' = Opened(f)
    /\ UNCHANGED <<serverVars, force, pairs>>

Fill(f) ==
    /\ gen = Opened(f)
    /\ file' = [file EXCEPT ![f] = pairs]
    /\ gen' = IF f = "cert" THEN "key" ELSE "done"
    /\ UNCHANGED <<serverVars, force, pairs>>

\* An error on the way, or the process is killed.
GenFails ==
    /\ gen \notin {"off", "done"}
    /\ gen' = "off"
    /\ UNCHANGED <<serverVars, force, file, pairs>>

\* The operator deletes a file.
Remove(f) ==
    /\ gen \in {"off", "done"} /\ file[f] # NoFile
    /\ file' = [file EXCEPT ![f] = NoFile]
    /\ gen' = "off"
    /\ UNCHANGED <<serverVars, force, pairs>>

\* All starts are used up.
Rest == pc = "off" /\ starts = MaxStarts /\ UNCHANGED vars

-----------------------------------------------------------------------------
Next ==
    \/ \E e \in Envs, p \in Policies : Start(e, p)
    \/ PolicyFails \/ Scan \/ ScanEnds \/ Load \/ Run
    \/ LoadCert \/ LoadKey \/ Listen \/ ServerExit
    \/ \E f \in BOOLEAN : Generate(f)
    \/ \E f \in Files : Truncate(f) \/ Fill(f) \/ Remove(f)
    \/ GenFails \/ Rest

Spec == Init /\ [][Next]_vars

-----------------------------------------------------------------------------
(* Properties.                                                             *)

Listening == pc \in {"plain", "tls"}

\* The type of every variable.
TypeOK ==
    /\ pc \in {"off", "policy", "config", "run", "loadCert", "loadKey", "match",
               "plain", "tls", "failed"}
    /\ env \in Envs /\ policy \in Policies /\ starts \in 0 .. MaxStarts
    /\ next \in 1 .. Len(policy) + 1 /\ patterns \subseteq 0 .. Len(policy)
    /\ gen \in {"off", "cert", "certOpen", "key", "keyOpen", "done"}
    /\ force \in BOOLEAN
    /\ pairs \in 0 .. MaxPairs
    /\ file \in [Files -> -1 .. pairs] /\ pair \in [Files -> -1 .. MaxPairs]

\* A server that was told of a certificate or of a key never serves in the
\* clear, and what it serves TLS with is a whole pair that belongs together,
\* also if certgen was replacing the files while it read them.  A certgen
\* that has returned without an error leaves such a pair, whatever it or its
\* predecessors left half-written.
TLSIsComplete ==
    /\ TypeOK
    /\ pc = "plain" => ~env.cert /\ ~env.key
    /\ pc = "tls" => /\ env.cert /\ env.key
                     /\ pair["cert"] = pair["key"] /\ pair["cert"] > 0
    /\ gen = "done" => file["cert"] = pairs /\ file["key"] = pairs

\* The server scans for the whole policy or for the built-in one: never for
\* nothing, and never for the part of a file that could be read.
PolicyIsWholeOrDefault ==
    Listening => patterns \in {Rules, Default} /\ patterns # {}

\* Without -force no complete file is overwritten, not even the one that is
\* left of a pair.
NoClobber ==
    [][\A f \in Files :
          file[f] > 0 /\ file'[f] # file[f] => force \/ file'[f] = NoFile]_vars
=============================================================================
