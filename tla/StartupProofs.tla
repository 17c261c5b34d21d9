--------------------------- MODULE StartupProofs ----------------------------
(***************************************************************************)
(* What a server listens with, for every environment, every policy file    *)
(* and any number of starts and of certgen runs beside them.               *)
(***************************************************************************)
EXTENDS Startup, TLAPS

\* The policy: while it is scanned, the rules before the next line; then all
\* of them, or the built-in patterns.
Policy ==
    /\ pc = "policy" => patterns = {i \in Rules : i < next}
    /\ pc \notin {"off", "policy"} => patterns \in {Rules, Default} /\ patterns # {}

\* Where the configuration has been loaded for this start.
Configured == {"run", "loadCert", "loadKey", "match", "plain", "tls", "failed"}

\* The file names loaded are those of the environment, which stays.
Loaded == pc \in Configured => cfg.cert = env.cert /\ cfg.key = env.key

\* Which way listen has taken, and with which pair.
Branch ==
    /\ pc = "plain" => ~env.cert /\ ~env.key
    /\ pc \in {"loadCert", "loadKey", "match", "tls"} => env.cert /\ env.key
    /\ pc = "tls" => Matches

\* The files certgen has written so far, and that without -force it has found
\* none when it started.
Written ==
    /\ gen \in {"key", "keyOpen", "done"} => file["cert"] = pairs
    /\ gen = "done" => file["key"] = pairs
    /\ ~force /\ gen = "cert" => file["cert"] = NoFile
    /\ ~force /\ gen = "certOpen" => file["cert"] = Partial
    /\ ~force /\ gen \in {"cert", "certOpen", "key"} => file["key"] = NoFile
    /\ ~force /\ gen = "keyOpen" => file["key"] = Partial

\* The inductive invariant.
Inv == TypeOK /\ Policy /\ Loaded /\ Branch /\ Written

\* What is read of a policy file has a finite number of lines.
LEMMA PolicyLines ==
    ASSUME TypeOK
    PROVE  Len(policy) \in Nat
  BY StartupAssumption DEF TypeOK

-----------------------------------------------------------------------------
(* Initially.                                                              *)

LEMMA InvInit ==
    ASSUME Init
    PROVE  Inv
<1>1. TypeOK
  <2>1. Len(policy) \in Nat
    BY StartupAssumption DEF Init
  <2>2. None \in [Files -> -1 .. 0] /\ None \in [Files -> -1 .. MaxPairs]
    BY StartupAssumption DEF None, NoFile
  <2>3. 0 \in 0 .. MaxPairs /\ 0 \in 0 .. MaxStarts /\ 1 \in 1 .. Len(policy) + 1
    BY <2>1, StartupAssumption
  <2>4. QED
    BY <2>1, <2>2, <2>3 DEF Init, TypeOK
<1>2. QED
  BY <1>1 DEF Init, Inv, Policy, Loaded, Configured, Branch, Written

-----------------------------------------------------------------------------
(* Every step preserves each part of the invariant.                        *)

LEMMA TypeStep ==
    ASSUME Inv, [Next]_vars
    PROVE  TypeOK'
<1> USE StartupAssumption DEF Inv, TypeOK, policyVars, genVars, serverVars,
        Goto, NoFile, Partial, Files
<1>0. Len(policy) \in Nat
  BY PolicyLines
<1>1. CASE \E e \in Envs, p \in Policies : Start(e, p)
  <2>1. PICK e \in Envs, p \in Policies : Start(e, p)
    BY <1>1
  <2>2. Len(p) \in Nat
    OBVIOUS
  <2>3. pair' \in [Files -> -1 .. MaxPairs]
    BY <2>1 DEF Start, None
  <2>4. starts' \in 0 .. MaxStarts
    BY <2>1 DEF Start
  <2>5. next' \in 1 .. Len(policy') + 1 /\ patterns' \subseteq 0 .. Len(policy')
    BY <2>1, <2>2 DEF Start
  <2>6. /\ pc' = "policy" /\ env' = e /\ policy' = p
        /\ UNCHANGED <<gen, force, pairs, file>>
    BY <2>1 DEF Start
  <2>7. QED
    BY <2>3, <2>4, <2>5, <2>6
<1>2. CASE PolicyFails
  BY <1>0, <1>2 DEF PolicyFails, Default
<1>3. CASE Scan
  <2>1. next \in 1 .. Len(policy) /\ next' \in 1 .. Len(policy) + 1
    BY <1>0, <1>3 DEF Scan
  <2>2. patterns' \subseteq 0 .. Len(policy)
    <3>1. patterns' \in {patterns, patterns \cup {next}, {0}}
      BY <1>3 DEF Scan, Default
    <3>2. next \in 0 .. Len(policy) /\ 0 \in 0 .. Len(policy)
      BY <1>0, <2>1
    <3>3. QED
      BY <3>1, <3>2, Zenon DEF TypeOK
  <2>3. pc' \in {"policy", "config"}
    BY <1>3 DEF Scan
  <2>4. QED
    BY <1>3, <2>1, <2>2, <2>3 DEF Scan
<1>4. CASE ScanEnds
  BY <1>0, <1>4 DEF ScanEnds, Default
<1>5. CASE Load
  BY <1>5 DEF Load
<1>6. CASE Run
  BY <1>6 DEF Run
<1>7. CASE LoadCert
  BY <1>7 DEF LoadCert
<1>8. CASE LoadKey
  BY <1>8 DEF LoadKey
<1>9. CASE Listen
  BY <1>9 DEF Listen
<1>10. CASE ServerExit
  BY <1>10 DEF ServerExit
<1>11. CASE \E f \in BOOLEAN : Generate(f)
  BY <1>11 DEF Generate
<1>12. CASE \E f \in Files : Truncate(f)
  BY <1>12 DEF Truncate, Opened
<1>13. CASE \E f \in Files : Fill(f)
  BY <1>13 DEF Fill, Opened
<1>14. CASE \E f \in Files : Remove(f)
  BY <1>14 DEF Remove
<1>15. CASE GenFails
  BY <1>15 DEF GenFails
<1>16. CASE Rest \/ UNCHANGED vars
  BY <1>16 DEF Rest, vars
<1>17. QED
  BY <1>1, <1>2, <1>3, <1>4, <1>5, <1>6, <1>7, <1>8, <1>9, <1>10, <1>11,
     <1>12, <1>13, <1>14, <1>15, <1>16 DEF Next

LEMMA PolicyStep ==
    ASSUME Inv, [Next]_vars
    PROVE  Policy'
<1> USE DEF Inv, Policy, Rules, policyVars, genVars, serverVars, Goto
<1>1. CASE \E e \in Envs, p \in Policies : Start(e, p)
  <2>1. PICK e \in Envs, p \in Policies : Start(e, p)
    BY <1>1
  <2>2. pc' = "policy" /\ next' = 1 /\ patterns' = {}
    BY <2>1 DEF Start
  <2>3. {i \in Rules' : i < 1} = {}
    BY <2>1, StartupAssumption DEF Start
  <2>4. QED
    BY <2>2, <2>3
<1>2. CASE PolicyFails
  BY <1>2 DEF PolicyFails, Default
<1>3. CASE Scan
  <2>0. Len(policy) \in Nat /\ next \in 1 .. Len(policy) + 1
    BY PolicyLines DEF TypeOK
  <2>1. CASE policy[next] # "tooLong"
    BY <1>3, <2>0, <2>1 DEF Scan
  <2>2. CASE policy[next] = "tooLong"
    BY <1>3, <2>0, <2>2 DEF Scan, Default
  <2>3. QED
    BY <2>1, <2>2
<1>4. CASE ScanEnds
  <2>0. Len(policy) \in Nat /\ next \in 1 .. Len(policy) + 1
    BY PolicyLines DEF TypeOK
  <2>1. patterns = Rules
    BY <1>4, <2>0 DEF ScanEnds
  <2>2. QED
    BY <1>4, <2>1 DEF ScanEnds, Default
<1>5. CASE Load
  BY <1>5 DEF Load
<1>6. CASE Run
  BY <1>6 DEF Run
<1>7. CASE LoadCert
  BY <1>7 DEF LoadCert
<1>8. CASE LoadKey
  BY <1>8 DEF LoadKey
<1>9. CASE Listen
  BY <1>9 DEF Listen
<1>10. CASE ServerExit
  BY <1>10 DEF ServerExit
<1>11. CASE \E f \in BOOLEAN : Generate(f)
  BY <1>11 DEF Generate
<1>12. CASE \E f \in Files : Truncate(f)
  BY <1>12 DEF Truncate
<1>13. CASE \E f \in Files : Fill(f)
  BY <1>13 DEF Fill
<1>14. CASE \E f \in Files : Remove(f)
  BY <1>14 DEF Remove
<1>15. CASE GenFails
  BY <1>15 DEF GenFails
<1>16. CASE Rest \/ UNCHANGED vars
  BY <1>16 DEF Rest, vars
<1>17. QED
  BY <1>1, <1>2, <1>3, <1>4, <1>5, <1>6, <1>7, <1>8, <1>9, <1>10, <1>11,
     <1>12, <1>13, <1>14, <1>15, <1>16 DEF Next

LEMMA LoadedStep ==
    ASSUME Inv, [Next]_vars
    PROVE  Loaded'
<1> USE DEF Inv, Loaded, Configured, policyVars, genVars, serverVars, Goto
<1>1. CASE \E e \in Envs, p \in Policies : Start(e, p)
  BY <1>1 DEF Start
<1>2. CASE PolicyFails
  BY <1>2 DEF PolicyFails
<1>3. CASE Scan
  BY <1>3 DEF Scan
<1>4. CASE ScanEnds
  BY <1>4 DEF ScanEnds
<1>5. CASE Load
  <2>1. /\ cfg' = [size |-> EnvInt(env.size), timeout |-> EnvInt(env.timeout),
                   capacity |-> EnvPositiveFloat(env.capacity),
                   limited |-> ~EnvBool(env.disabled) /\ ~EnvBool(env.benchmark),
                   cert |-> env.cert, key |-> env.key]
        /\ UNCHANGED env
    BY <1>5 DEF Load
  <2>2. cfg'.cert = env.cert /\ cfg'.key = env.key
    BY <2>1
  <2>3. QED
    BY <2>1, <2>2
<1>6. CASE Run
  BY <1>6 DEF Run
<1>7. CASE LoadCert
  BY <1>7 DEF LoadCert
<1>8. CASE LoadKey
  BY <1>8 DEF LoadKey
<1>9. CASE Listen
  BY <1>9 DEF Listen
<1>10. CASE ServerExit
  BY <1>10 DEF ServerExit
<1>11. CASE \E f \in BOOLEAN : Generate(f)
  BY <1>11 DEF Generate
<1>12. CASE \E f \in Files : Truncate(f)
  BY <1>12 DEF Truncate
<1>13. CASE \E f \in Files : Fill(f)
  BY <1>13 DEF Fill
<1>14. CASE \E f \in Files : Remove(f)
  BY <1>14 DEF Remove
<1>15. CASE GenFails
  BY <1>15 DEF GenFails
<1>16. CASE Rest \/ UNCHANGED vars
  BY <1>16 DEF Rest, vars
<1>17. QED
  BY <1>1, <1>2, <1>3, <1>4, <1>5, <1>6, <1>7, <1>8, <1>9, <1>10, <1>11,
     <1>12, <1>13, <1>14, <1>15, <1>16 DEF Next

LEMMA BranchStep ==
    ASSUME Inv, [Next]_vars
    PROVE  Branch'
<1> USE DEF Inv, Branch, Matches, policyVars, genVars, serverVars, Goto
<1>1. CASE \E e \in Envs, p \in Policies : Start(e, p)
  BY <1>1 DEF Start
<1>2. CASE PolicyFails
  BY <1>2 DEF PolicyFails
<1>3. CASE Scan
  BY <1>3 DEF Scan
<1>4. CASE ScanEnds
  BY <1>4 DEF ScanEnds
<1>5. CASE Load
  BY <1>5 DEF Load
<1>6. CASE Run
  <2>1. cfg.cert = env.cert /\ cfg.key = env.key
    BY <1>6 DEF Run, Loaded, Configured
  <2>2. env.cert \in BOOLEAN /\ env.key \in BOOLEAN
    BY StartupAssumption DEF TypeOK
  <2>3. UNCHANGED env
    BY <1>6 DEF Run
  <2>4. CASE pc' = "failed"
    BY <2>4
  <2>5. CASE pc' = "loadCert" /\ TLSEnabled
    BY <2>1, <2>3, <2>5 DEF TLSEnabled
  <2>6. CASE pc' = "plain" /\ ~TLSPartiallyConfigured /\ ~TLSEnabled
    <3>1. ~env.cert /\ ~env.key
      BY <2>1, <2>2, <2>6, Zenon DEF TLSEnabled, TLSPartiallyConfigured
    <3>2. QED
      BY <2>3, <2>6, <3>1
  <2>7. QED
    BY <1>6, <2>4, <2>5, <2>6 DEF Run
<1>7. CASE LoadCert
  BY <1>7 DEF LoadCert
<1>8. CASE LoadKey
  BY <1>8 DEF LoadKey
<1>9. CASE Listen
  BY <1>9 DEF Listen
<1>10. CASE ServerExit
  BY <1>10 DEF ServerExit
<1>11. CASE \E f \in BOOLEAN : Generate(f)
  BY <1>11 DEF Generate
<1>12. CASE \E f \in Files : Truncate(f)
  BY <1>12 DEF Truncate
<1>13. CASE \E f \in Files : Fill(f)
  BY <1>13 DEF Fill
<1>14. CASE \E f \in Files : Remove(f)
  BY <1>14 DEF Remove
<1>15. CASE GenFails
  BY <1>15 DEF GenFails
<1>16. CASE Rest \/ UNCHANGED vars
  BY <1>16 DEF Rest, vars
<1>17. QED
  BY <1>1, <1>2, <1>3, <1>4, <1>5, <1>6, <1>7, <1>8, <1>9, <1>10, <1>11,
     <1>12, <1>13, <1>14, <1>15, <1>16 DEF Next

LEMMA WrittenStep ==
    ASSUME Inv, [Next]_vars
    PROVE  Written'
<1> USE StartupAssumption DEF Inv, TypeOK, Written, policyVars, genVars, serverVars,
        Goto, NoFile, Partial, Files
<1>1. CASE \E e \in Envs, p \in Policies : Start(e, p)
  BY <1>1 DEF Start
<1>2. CASE PolicyFails
  BY <1>2 DEF PolicyFails
<1>3. CASE Scan
  BY <1>3 DEF Scan
<1>4. CASE ScanEnds
  BY <1>4 DEF ScanEnds
<1>5. CASE Load
  BY <1>5 DEF Load
<1>6. CASE Run
  BY <1>6 DEF Run
<1>7. CASE LoadCert
  BY <1>7 DEF LoadCert
<1>8. CASE LoadKey
  BY <1>8 DEF LoadKey
<1>9. CASE Listen
  BY <1>9 DEF Listen
<1>10. CASE ServerExit
  BY <1>10 DEF ServerExit
<1>11. CASE \E f \in BOOLEAN : Generate(f)
  BY <1>11 DEF Generate, OutputExists
<1>12. CASE \E f \in Files : Truncate(f)
  BY <1>12 DEF Truncate, Opened
<1>13. CASE \E f \in Files : Fill(f)
  BY <1>13 DEF Fill, Opened
<1>14. CASE \E f \in Files : Remove(f)
  BY <1>14 DEF Remove
<1>15. CASE GenFails
  BY <1>15 DEF GenFails
<1>16. CASE Rest \/ UNCHANGED vars
  BY <1>16 DEF Rest, vars
<1>17. QED
  BY <1>1, <1>2, <1>3, <1>4, <1>5, <1>6, <1>7, <1>8, <1>9, <1>10, <1>11,
     <1>12, <1>13, <1>14, <1>15, <1>16 DEF Next

-----------------------------------------------------------------------------
(* The theorems.                                                           *)

\* The invariant holds of every behaviour.
THEOREM Invariance == Spec => []Inv
<1>1. Init => Inv
  BY InvInit
<1>2. Inv /\ [Next]_vars => Inv'
  BY TypeStep, PolicyStep, LoadedStep, BranchStep, WrittenStep DEF Inv
<1>3. QED
  BY <1>1, <1>2, PTL DEF Spec

\* A server told of a certificate or a key never serves in the clear, and
\* what tls.LoadX509KeyPair accepts is one whole pair, however certgen was
\* interleaved with its two reads and wherever certgen failed.
THEOREM TLSHolds == Spec => []TLSIsComplete
<1>1. Inv => TLSIsComplete
  <2>1. SUFFICES ASSUME Inv PROVE TLSIsComplete
    OBVIOUS
  <2>2. pc = "tls" => pair["cert"] = pair["key"] /\ pair["cert"] > 0
    BY <2>1, StartupAssumption
       DEF Inv, TypeOK, Branch, Matches, NoFile, Partial, Files
  <2>3. QED
    BY <2>1, <2>2 DEF Inv, Branch, Written, TLSIsComplete
<1>2. QED
  BY <1>1, Invariance, PTL

\* The patterns of a listening server are all rules of its policy file or the
\* built-in ones, whatever the file holds and wherever reading it failed.
THEOREM PolicyHolds == Spec => []PolicyIsWholeOrDefault
<1>1. Inv => PolicyIsWholeOrDefault
  BY DEF Inv, Policy, PolicyIsWholeOrDefault, Listening
<1>2. QED
  BY <1>1, Invariance, PTL

\* certgen without -force overwrites no complete file, also when one of the
\* two was removed or left over by a run that was killed.
THEOREM NothingClobbered == Spec => NoClobber
<1> DEFINE Kept == \A f \in Files :
          file[f] > 0 /\ file'[f] # file[f] => force \/ file'[f] = NoFile
<1>1. ASSUME Inv, [Next]_vars PROVE [Kept]_vars
  <2> USE <1>1 DEF Inv, TypeOK, Written, serverVars, genVars, Files, NoFile,
          Partial
  <2>1. CASE \E f \in Files : Truncate(f)
    BY <2>1, StartupAssumption DEF Truncate
  <2>2. CASE \E f \in Files : Fill(f)
    BY <2>2, StartupAssumption DEF Fill, Opened
  <2>3. CASE \E f \in Files : Remove(f)
    BY <2>3 DEF Remove
  <2>4. CASE UNCHANGED file
    BY <2>4
  <2>5. QED
    BY <2>1, <2>2, <2>3, <2>4
       DEF Next, Start, PolicyFails, Scan, ScanEnds, Load, Run, LoadCert,
           LoadKey, Listen, ServerExit, Generate, GenFails, Rest, vars
<1>2. QED
  BY <1>1, Invariance, PTL DEF Spec, NoClobber
=============================================================================
