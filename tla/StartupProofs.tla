----------------------------- MODULE StartupProofs -----------------------------
(***************************************************************************)
(* Proofs of what a command can rely on when it starts, for any command    *)
(* line, environment, .env file and configuration.                         *)
(***************************************************************************)
EXTENDS Startup, FiniteSetTheorems, TLAPS

-----------------------------------------------------------------------------
(* Sequences *)

LEMMA ElementType ==
  ASSUME NEW S, NEW s \in Seq(S), NEW i \in 1 .. Len(s)
  PROVE  s[i] \in S
OBVIOUS

LEMMA TailType ==
  ASSUME NEW S, NEW s \in Seq(S), s # <<>>
  PROVE  /\ Head(s) \in S /\ Tail(s) \in Seq(S)
         /\ Len(s) # 1 => Tail(s) # <<>>
<1>1. Len(s) \in Nat \ {0}
  OBVIOUS
<1>2. Head(s) \in S /\ Tail(s) \in Seq(S) /\ Len(Tail(s)) = Len(s) - 1
  BY <1>1
<1>3. Len(s) # 1 => Len(Tail(s)) # 0
  BY <1>1, <1>2
<1>4. Len(<<>>) = 0
  OBVIOUS
<1>5. QED
  BY <1>2, <1>3, <1>4, Zenon

-----------------------------------------------------------------------------
(* The policy's integers *)

LEMMA IntNames ==
  /\ IntName = {"soon", "imminent", "shift", "lookahead", "poll", "retention"}
  /\ IsFiniteSet(IntName) /\ Cardinality(IntName) <= 6
<1>1. IntName = {"soon", "imminent", "shift", "lookahead", "poll", "retention"}
  <2>1. 1 .. Len(Ints) = {1, 2, 3, 4, 5, 6}
    BY DEF Ints
  <2>2. IntName = {Ints[i] : i \in {1, 2, 3, 4, 5, 6}}
    BY <2>1 DEF IntName
  <2>3. QED
    BY <2>2 DEF Ints
<1> DEFINE T(S, x) == S \cup {x}
           S1 == T({}, "soon")
           S2 == T(S1, "imminent")
           S3 == T(S2, "shift")
           S4 == T(S3, "lookahead")
           S5 == T(S4, "poll")
           S6 == T(S5, "retention")
<1>2. \A S, x : IsFiniteSet(S) =>
        IsFiniteSet(T(S, x)) /\ Cardinality(T(S, x)) <= Cardinality(S) + 1
  <2> SUFFICES ASSUME NEW S, NEW x, IsFiniteSet(S)
               PROVE  IsFiniteSet(T(S, x)) /\ Cardinality(T(S, x)) <= Cardinality(S) + 1
    OBVIOUS
  <2>1. Cardinality(S) \in Nat
    BY FS_CardinalityType
  <2>2. QED
    BY <2>1, FS_AddElement
<1>3. IntName = S6
  BY <1>1
<1> HIDE DEF T
<1>4. IsFiniteSet({}) /\ Cardinality({}) = 0
  BY FS_EmptySet
<1>5. /\ IsFiniteSet(S1) /\ IsFiniteSet(S2) /\ IsFiniteSet(S3)
      /\ IsFiniteSet(S4) /\ IsFiniteSet(S5) /\ IsFiniteSet(S6)
  BY <1>2, <1>4, Zenon
<1>6. /\ Cardinality(S1) <= 1
      /\ Cardinality(S2) <= Cardinality(S1) + 1
      /\ Cardinality(S3) <= Cardinality(S2) + 1
      /\ Cardinality(S4) <= Cardinality(S3) + 1
      /\ Cardinality(S5) <= Cardinality(S4) + 1
      /\ Cardinality(S6) <= Cardinality(S5) + 1
  BY <1>2, <1>4, <1>5
<1>7. /\ Cardinality(S1) \in Nat /\ Cardinality(S2) \in Nat /\ Cardinality(S3) \in Nat
      /\ Cardinality(S4) \in Nat /\ Cardinality(S5) \in Nat /\ Cardinality(S6) \in Nat
  BY <1>5, FS_CardinalityType
<1> HIDE DEF S1, S2, S3, S4, S5, S6
<1>8. QED
  BY <1>1, <1>3, <1>5, <1>6, <1>7

\* As long as one is missing, ReadInt reads one of them.
LEMMA NextIntIsOne ==
  ASSUME NEW D \in SUBSET IntName, D # IntName
  PROVE  Ints[Cardinality(D) + 1] \in IntName
<1>1. /\ IsFiniteSet(D) /\ Cardinality(D) <= Cardinality(IntName)
      /\ Cardinality(IntName) # Cardinality(D)
  BY IntNames, FS_Subset
<1>2. Cardinality(D) \in Nat /\ Cardinality(IntName) \in Nat
  BY <1>1, IntNames, FS_CardinalityType
<1>3. Cardinality(D) + 1 \in 1 .. 6
  BY <1>1, <1>2, IntNames
<1>4. 1 .. 6 = 1 .. Len(Ints)
  BY DEF Ints
<1>5. QED
  BY <1>3, <1>4, Zenon DEF IntName

\* A positive integer an int can hold keeps its value.
LEMMA NarrowKeeps ==
  ASSUME NEW n \in Int, n > 0, n < 2 ^ (IntWidth - 1)
  PROVE  Narrow(n) = n
<1> DEFINE half == 2 ^ (IntWidth - 1)
<1>1. half \in Int /\ n < half
  BY StartupAssumption
<1> HIDE DEF half
<1>2. n + half \in 0 .. 2 * half - 1 /\ 2 * half > 0
  BY <1>1
<1>3. (n + half) % (2 * half) = n + half
  BY <1>1, <1>2
<1>4. (n + half) - half = n
  BY <1>1
<1>5. QED
  BY <1>3, <1>4 DEF Narrow, half

LEMMA DefaultsPositive == \A f \in IntName : Default[f] \in Int /\ Default[f] > 0
BY IntNames DEF Default

-----------------------------------------------------------------------------
(* The invariant *)

LEMMA InitIInv == Init => IInv
<1> SUFFICES ASSUME Init PROVE IInv
  OBVIOUS
<1>1. PICK n \in 0 .. MaxArgs : args \in [1 .. n -> Arg]
  BY DEF Init
<1>2. args \in Seq(Arg)
  BY <1>1, StartupAssumption
<1>3. <<>> \in Seq([name : Name, var : Var]) /\ Len(<<>>) = 0
  OBVIOUS
<1>4. /\ pc = "args" /\ command = "" /\ dryRun = FALSE /\ env = given
      /\ given \in [Var -> Secret \cup {Blank, Unset}]
      /\ recipients = <<>> /\ tokenVar = Unset /\ DOMAIN ints = {}
  BY DEF Init
<1>5. TypeOK /\ ArgsInv
  <2>1. dryRun \in BOOLEAN /\ ~dryRun
    BY <1>4
  <2>2. env \in [Var -> Secret \cup {Blank, Unset}]
    BY <1>4, Zenon
  <2>3. TypeOK
    BY <1>2, <1>3, <1>4, <2>1, <2>2 DEF TypeOK
  <2>4. QED
    BY <1>4, <2>1, <2>3 DEF ArgsInv
<1>6. EnvInv /\ NamesDiffer /\ ConfigInv /\ SecretsInv
  <2>1. EnvInv
    BY <1>4, Zenon DEF EnvInv
  <2>2. NamesDiffer
    <3>1. Len(recipients) = 0
      BY <1>3, <1>4, Zenon
    <3>2. QED
      BY <3>1 DEF NamesDiffer
  <2>3. ConfigInv /\ SecretsInv
    BY <1>4 DEF ConfigInv, SecretsInv
  <2>4. QED
    BY <2>1, <2>2, <2>3
<1>7. QED
  BY <1>5, <1>6 DEF IInv

\* The parts that read neither the arguments nor the place in the program.
LEMMA KeepsNames ==
  ASSUME NamesDiffer, UNCHANGED recipients
  PROVE  NamesDiffer'
BY DEF NamesDiffer

LEMMA KeepsEnv ==
  ASSUME EnvInv, UNCHANGED <<given, env>>
  PROVE  EnvInv'
BY DEF EnvInv

\* runMain ends: of the invariant only what does not depend on the place.
LEMMA ExitKeepsIInv ==
  ASSUME IInv, pc' = "exited", UNCHANGED <<parsed, given, env, config, secrets>>
  PROVE  IInv'
<1>1. UNCHANGED <<args, command, dryRun, given, env, recipients, tokenVar, ints, secrets>>
  BY DEF parsed, config
<1>2. TypeOK' /\ ArgsInv' /\ ConfigInv' /\ SecretsInv'
  BY <1>1 DEF IInv, TypeOK, ArgsInv, ConfigInv, SecretsInv
<1>3. QED
  BY <1>1, <1>2, KeepsNames, KeepsEnv DEF IInv

\* A step from one place to the next that changes nothing else, none of them
\* into the configured stages that establish something.
LEMMA MoveKeepsIInv ==
  ASSUME IInv, UNCHANGED <<parsed, given, env, config, secrets>>,
         \/ pc = "relevance" /\ pc' = "recipients"
         \/ pc = "recipients" /\ pc' = "token"
         \/ pc = "zone" /\ pc' = "secrets"
         \/ pc = "secrets" /\ pc' = "run" /\ dryRun
         \/ pc = "args" /\ pc' = "dotenv" /\ command \in Commands
         \/ pc = "ints" /\ pc' = "zone" /\ DOMAIN ints = IntName /\ Ordered
         \/ pc' = pc
  PROVE  IInv'
<1>1. UNCHANGED <<args, command, dryRun, given, env, recipients, tokenVar, ints, secrets>>
  BY DEF parsed, config
<1>2. TypeOK' /\ ArgsInv'
  BY <1>1 DEF IInv, TypeOK, ArgsInv
<1>3. Ordered' = Ordered
  BY <1>1 DEF Ordered
<1>4. ConfigInv'
  BY <1>1, <1>3 DEF IInv, ConfigInv
<1>5. SecretsInv'
  <2>1. CASE pc' = pc
    BY <1>1, <2>1 DEF IInv, SecretsInv, Readable
  <2>2. CASE pc' # pc
    <3>1. pc' = "run" => dryRun'
      BY <1>1, <2>2
    <3>2. QED
      BY <3>1 DEF SecretsInv
  <2>3. QED
    BY <2>1, <2>2
<1>6. QED
  BY <1>1, <1>2, <1>4, <1>5, KeepsNames, KeepsEnv DEF IInv

\* parseArgs: --dry-run is taken after once only, and a second command refused.
LEMMA ParseArgsKeepsIInv ==
  ASSUME IInv, ParseArgs
  PROVE  IInv'
<1>1. CASE ShowHelp \/ RefuseArg
  BY <1>1, ExitKeepsIInv DEF ShowHelp, RefuseArg, Exits
<1>2. ASSUME TakeValue \/ TakeDryRun \/ TakeCommand PROVE IInv'
  <2>1. /\ pc = "args" /\ args # <<>> /\ args \in Seq(Arg)
        /\ UNCHANGED <<pc, given, env, recipients, tokenVar, ints, secrets>>
    BY <1>2 DEF TakeValue, TakeDryRun, TakeCommand, Parsing, IInv, TypeOK, config
  <2>2. args' \in Seq(Arg)
    <3>1. CASE TakeValue
      <4>1. Len(args) # 1 /\ args' = Tail(Tail(args))
        BY <3>1 DEF TakeValue, Refused
      <4>2. Tail(args) \in Seq(Arg) /\ Tail(args) # <<>>
        BY <2>1, <4>1, TailType
      <4>3. QED
        BY <4>1, <4>2, TailType
    <3>2. CASE TakeDryRun \/ TakeCommand
      BY <2>1, <3>2 DEF TakeDryRun, TakeCommand
    <3>3. QED
      BY <1>2, <3>1, <3>2
  <2>3. command' \in Arg \cup {""} /\ dryRun' \in BOOLEAN /\ (dryRun' => command' = "once")
    <3>1. /\ command \in Arg \cup {""} /\ dryRun \in BOOLEAN
          /\ dryRun => command = "once"
      BY DEF IInv, TypeOK, ArgsInv
    <3>2. CASE TakeValue
      BY <3>1, <3>2 DEF TakeValue
    <3>3. CASE TakeDryRun
      BY <3>1, <3>3 DEF TakeDryRun, Refused
    <3>4. CASE TakeCommand
      <4>1. command = "" /\ command' = Head(args) /\ dryRun' = dryRun
        BY <3>4 DEF TakeCommand, Refused
      <4>2. Head(args) \in Arg
        BY <2>1
      <4>3. QED
        BY <3>1, <4>1, <4>2
    <3>5. QED
      BY <1>2, <3>2, <3>3, <3>4
  <2>4. TypeOK' /\ ArgsInv'
    BY <2>1, <2>2, <2>3 DEF IInv, TypeOK, ArgsInv
  <2>5. ConfigInv' /\ SecretsInv'
    BY <2>1 DEF ConfigInv, SecretsInv
  <2>6. QED
    BY <2>1, <2>4, <2>5, KeepsNames, KeepsEnv DEF IInv
<1>3. CASE EndArgs
  BY <1>3, ExitKeepsIInv, MoveKeepsIInv DEF EndArgs, Exits
<1>4. QED
  BY <1>1, <1>2, <1>3 DEF ParseArgs

\* loadDotenv sets only what is not set.
LEMMA LoadDotenvKeepsIInv ==
  ASSUME IInv, LoadDotenv
  PROVE  IInv'
<1>1. PICK file \in [Var -> Secret \cup {Blank, Unset}] : env' = loadDotenv(file)
  BY DEF LoadDotenv
<1>2. /\ pc = "dotenv" /\ pc' = "relevance"
      /\ UNCHANGED <<args, command, dryRun, given, recipients, tokenVar, ints, secrets>>
  BY DEF LoadDotenv, Continues, parsed, config
<1>3. env' \in [Var -> Secret \cup {Blank, Unset}]
  BY <1>1 DEF loadDotenv, IInv, TypeOK
<1>4. EnvInv'
  BY <1>1, <1>2 DEF IInv, EnvInv, loadDotenv
<1>5. TypeOK' /\ ArgsInv' /\ ConfigInv' /\ SecretsInv'
  BY <1>2, <1>3 DEF IInv, TypeOK, ArgsInv, ConfigInv, SecretsInv
<1>6. QED
  BY <1>2, <1>4, <1>5, KeepsNames DEF IInv

\* loadConfig: what each stage reads passes its checks.
LEMMA LoadConfigKeepsIInv ==
  ASSUME IInv, LoadConfig
  PROVE  IInv'
<1>1. CASE ConfigMalformed
  BY <1>1, ExitKeepsIInv DEF ConfigMalformed, Exits
<1>2. CASE RelevanceOk \/ RecipientsOk \/ ZoneOk
  BY <1>2, MoveKeepsIInv DEF RelevanceOk, RecipientsOk, ZoneOk, Continues
<1>3. CASE ReadRecipient
  <2>1. PICK r \in Recipient :
          IF Blank \notin {r.name, r.var} /\ NameFree(r.name)
          THEN recipients' = Append(recipients, r) /\ UNCHANGED <<pc, exit>>
          ELSE Exits(2) /\ UNCHANGED recipients
    BY <1>3 DEF ReadRecipient
  <2>2. pc = "recipients" /\ UNCHANGED <<parsed, given, env, tokenVar, ints, secrets>>
    BY <1>3 DEF ReadRecipient
  <2>3. CASE ~(Blank \notin {r.name, r.var} /\ NameFree(r.name))
    BY <2>1, <2>2, <2>3, ExitKeepsIInv DEF Exits, config
  <2>4. CASE Blank \notin {r.name, r.var} /\ NameFree(r.name)
    <3>1. recipients' = Append(recipients, r) /\ pc' = pc
      BY <2>1, <2>4
    <3>2. r \in [name : Name, var : Var]
      BY <2>4 DEF Recipient
    <3>3. recipients \in Seq([name : Name, var : Var])
      BY DEF IInv, TypeOK
    <3>4. recipients' \in Seq([name : Name, var : Var])
      BY <3>1, <3>2, <3>3
    <3>5. UNCHANGED <<args, command, dryRun>>
      BY <2>2 DEF parsed
    <3>6. TypeOK' /\ ArgsInv' /\ ConfigInv' /\ SecretsInv'
      BY <2>2, <3>1, <3>4, <3>5 DEF IInv, TypeOK, ArgsInv, ConfigInv, SecretsInv
    <3>7. NamesDiffer'
      <4>1. /\ Len(recipients') = Len(recipients) + 1 /\ Len(recipients) \in Nat
            /\ recipients'[Len(recipients) + 1] = r
            /\ \A k \in 1 .. Len(recipients) : recipients'[k] = recipients[k]
        BY <3>1, <3>2, <3>3
      <4>2. \A k \in 1 .. Len(recipients) : recipients[k].name # r.name
        BY <2>4 DEF NameFree
      <4>3. SUFFICES ASSUME NEW i \in 1 .. Len(recipients) + 1,
                            NEW j \in 1 .. Len(recipients) + 1,
                            recipients'[i].name = recipients'[j].name
                     PROVE  i = j
        BY <4>1 DEF NamesDiffer
      <4>4. CASE i \in 1 .. Len(recipients) /\ j \in 1 .. Len(recipients)
        BY <4>1, <4>3, <4>4 DEF IInv, NamesDiffer
      <4>5. CASE i = Len(recipients) + 1 \/ j = Len(recipients) + 1
        <5>1. i \in 1 .. Len(recipients) => recipients[i].name # r.name
          BY <4>2
        <5>2. j \in 1 .. Len(recipients) => recipients[j].name # r.name
          BY <4>2
        <5>3. QED
          BY <4>1, <4>3, <4>5, <5>1, <5>2
      <4>6. QED
        BY <4>1, <4>4, <4>5
    <3>8. QED
      BY <2>2, <3>6, <3>7, KeepsEnv DEF IInv
  <2>5. QED
    BY <2>3, <2>4
<1>4. CASE ReadTokenVar
  <2>1. /\ pc = "token" /\ pc' = "ints" /\ tokenVar' \in Var
        /\ UNCHANGED <<args, command, dryRun, given, env, recipients, ints, secrets>>
    BY <1>4 DEF ReadTokenVar, Continues, parsed
  <2>2. TypeOK' /\ ArgsInv' /\ ConfigInv' /\ SecretsInv'
    BY <2>1 DEF IInv, TypeOK, ArgsInv, ConfigInv, SecretsInv
  <2>3. QED
    BY <2>1, <2>2, KeepsNames, KeepsEnv DEF IInv
<1>5. CASE ReadInt
  <2> DEFINE field == Ints[Cardinality(DOMAIN ints) + 1]
  <2>1. /\ pc = "ints" /\ DOMAIN ints # IntName
        /\ UNCHANGED <<parsed, given, env, recipients, tokenVar, secrets>>
    BY <1>5 DEF ReadInt
  <2>2. \/ Exits(2) /\ UNCHANGED ints
        \/ DOMAIN ints' = DOMAIN ints \cup {field} /\ UNCHANGED <<pc, exit>>
    BY <1>5 DEF ReadInt
  <2>3. field \in IntName
    BY <2>1, NextIntIsOne DEF IInv, TypeOK
  <2> HIDE DEF field
  <2>4. CASE Exits(2) /\ UNCHANGED ints
    BY <2>1, <2>4, ExitKeepsIInv DEF Exits, config
  <2>5. CASE DOMAIN ints' = DOMAIN ints \cup {field} /\ UNCHANGED <<pc, exit>>
    <3>1. UNCHANGED <<args, command, dryRun>>
      BY <2>1 DEF parsed
    <3>2. TypeOK' /\ ArgsInv' /\ ConfigInv' /\ SecretsInv'
      BY <2>1, <2>3, <2>5, <3>1 DEF IInv, TypeOK, ArgsInv, ConfigInv, SecretsInv
    <3>3. QED
      BY <2>1, <3>2, KeepsNames, KeepsEnv DEF IInv
  <2>6. QED
    BY <2>2, <2>4, <2>5
<1>6. CASE CheckThresholds
  BY <1>6, ExitKeepsIInv, MoveKeepsIInv DEF CheckThresholds, Exits
<1>7. QED
  BY <1>1, <1>2, <1>3, <1>4, <1>5, <1>6 DEF LoadConfig

\* resolveSecrets: every key under the name it belongs to.
LEMMA SecretsKeepIInv ==
  ASSUME IInv, SkipSecrets \/ RefuseSecrets \/ ResolveSecrets
  PROVE  IInv'
<1>1. CASE SkipSecrets
  BY <1>1, MoveKeepsIInv DEF SkipSecrets, NeedsSecrets, Continues
<1>2. CASE RefuseSecrets
  BY <1>2, ExitKeepsIInv DEF RefuseSecrets, Exits
<1>3. CASE ResolveSecrets
  <2> DEFINE Last(n) == CHOOSE i \in 1 .. Len(recipients) :
                          /\ recipients[i].name = n
                          /\ \A j \in i + 1 .. Len(recipients) : recipients[j].name # n
             Names == {recipients[i].name : i \in 1 .. Len(recipients)}
  <2>1. /\ pc = "secrets" /\ pc' = "run" /\ ~SecretsMissing
        /\ secrets'.token = env[tokenVar]
        /\ DOMAIN secrets'.keys = Names
        /\ \A n \in Names : secrets'.keys[n] = env[recipients[Last(n)].var]
        /\ UNCHANGED <<args, command, dryRun, given, env, recipients, tokenVar, ints>>
    BY <1>3 DEF ResolveSecrets, Continues, parsed, config
  <2>2. Len(recipients) \in Nat
    <3>1. recipients \in Seq([name : Name, var : Var])
      BY DEF IInv, TypeOK
    <3>2. QED
      BY <3>1
  <2>3. ASSUME NEW i \in 1 .. Len(recipients)
        PROVE  Last(recipients[i].name) = i
    <3>1. \A j \in 1 .. Len(recipients) : recipients[j].name = recipients[i].name => j = i
      BY DEF IInv, NamesDiffer
    <3>2. \A j \in i + 1 .. Len(recipients) : recipients[j].name # recipients[i].name
      BY <2>2, <3>1
    <3>3. QED
      BY <3>1, <3>2, Zenon
  <2> HIDE DEF Last
  <2>4. SecretsInv'
    <3>1. Readable(tokenVar) /\ \A i \in 1 .. Len(recipients) : Readable(recipients[i].var)
      BY <2>1 DEF SecretsMissing
    <3>2. \A i \in 1 .. Len(recipients) :
            /\ recipients[i].name \in DOMAIN secrets'.keys
            /\ secrets'.keys[recipients[i].name] = env[recipients[i].var]
      BY <2>1, <2>3
    <3>3. QED
      BY <2>1, <3>1, <3>2 DEF SecretsInv, Readable
  <2>5. Ordered' = Ordered
    BY <2>1 DEF Ordered
  <2>6. TypeOK' /\ ArgsInv' /\ ConfigInv'
    BY <2>1, <2>5 DEF IInv, TypeOK, ArgsInv, ConfigInv
  <2>7. QED
    BY <2>1, <2>4, <2>6, KeepsNames, KeepsEnv DEF IInv
<1>4. QED
  BY <1>1, <1>2, <1>3

\* From the arguments to a command about to run, startup establishes what it
\* checks and never loses it (cli.cpp, config.cpp).
THEOREM StartupInvariance == Spec => []IInv
<1>1. Init => IInv
  BY InitIInv
<1>2. IInv /\ [Next]_vars => IInv'
  <2>1. IInv /\ UNCHANGED vars => IInv'
    BY MoveKeepsIInv DEF vars
  <2>2. QED
    BY <2>1, ParseArgsKeepsIInv, LoadDotenvKeepsIInv, LoadConfigKeepsIInv,
       SecretsKeepIInv DEF Next
<1>3. QED
  BY <1>1, <1>2, PTL DEF Spec

-----------------------------------------------------------------------------
(* What a command can rely on *)

LEMMA ReadableIsSecret ==
  ASSUME IInv, NEW v \in Var, Readable(v)
  PROVE  env[v] \in Secret
BY DEF IInv, TypeOK, Readable

LEMMA RecipientType ==
  ASSUME IInv, NEW i \in 1 .. Len(recipients)
  PROVE  recipients[i].name \in Name /\ recipients[i].var \in Var
<1>1. recipients \in Seq([name : Name, var : Var])
  BY DEF IInv, TypeOK
<1>2. recipients[i] \in [name : Name, var : Var]
  BY <1>1, ElementType
<1>3. QED
  BY <1>2

\* Every recipient of a notifying command has the key of the own variable.
THEOREM KeysAreTheirOwn == Spec => []EveryRecipientHasOwnKey
<1>1. IInv => EveryRecipientHasOwnKey
  <2> SUFFICES ASSUME IInv, pc = "run", ~dryRun, NEW i \in 1 .. Len(recipients)
               PROVE  LET r == recipients[i]
                      IN /\ r.name \in DOMAIN secrets.keys
                         /\ secrets.keys[r.name] = env[r.var]
                         /\ secrets.keys[r.name] \in Secret
    BY Zenon DEF EveryRecipientHasOwnKey
  <2>1. /\ Readable(recipients[i].var)
        /\ recipients[i].name \in DOMAIN secrets.keys
        /\ secrets.keys[recipients[i].name] = env[recipients[i].var]
    BY DEF IInv, SecretsInv
  <2>2. QED
    BY <2>1, RecipientType, ReadableIsSecret
<1>2. QED
  BY <1>1, StartupInvariance, PTL

\* What was set in the environment is used, whatever the .env file says.
THEOREM EnvironmentWins == Spec => []GivenSecretsUsed
<1>1. IInv => GivenSecretsUsed
  <2> SUFFICES ASSUME IInv, pc = "run", ~dryRun PROVE GivenSecretsUsed
    BY DEF GivenSecretsUsed
  <2>1. tokenVar \in Var /\ secrets.token = env[tokenVar]
    BY DEF IInv, ConfigInv, SecretsInv
  <2>2. \A i \in 1 .. Len(recipients) :
          secrets.keys[recipients[i].name] = env[recipients[i].var]
    BY DEF IInv, SecretsInv
  <2>3. \A v \in Var : given[v] # Unset => env[v] = given[v]
    BY DEF IInv, EnvInv
  <2>4. QED
    BY <2>1, <2>2, <2>3, RecipientType DEF GivenSecretsUsed
<1>2. QED
  BY <1>1, StartupInvariance, PTL

\* Nothing but a dry run of once starts without its secrets.
THEOREM SecretsOrDryRun == Spec => []RunsComplete
<1>1. IInv => RunsComplete
  <2> SUFFICES ASSUME IInv, pc = "run" PROVE RunsComplete
    BY DEF RunsComplete
  <2>1. dryRun => command = "once"
    BY DEF IInv, ArgsInv
  <2>2. ~dryRun => secrets.token = env[tokenVar] /\ Readable(tokenVar) /\ tokenVar \in Var
    BY DEF IInv, SecretsInv, ConfigInv
  <2>3. ~dryRun => secrets.token \in Secret
    BY <2>2, ReadableIsSecret
  <2>4. QED
    BY <2>1, <2>3 DEF RunsComplete
<1>2. QED
  BY <1>1, StartupInvariance, PTL

-----------------------------------------------------------------------------
(* The policy, when the file's integers fit into an int *)

LEMMA InitPositive == Init => PositiveInv
BY DEF Init, PositiveInv

LEMMA StepKeepsPositive ==
  ASSUME IntsFit, IInv, PositiveInv, [Next]_vars
  PROVE  PositiveInv'
<1>1. CASE UNCHANGED ints
  BY <1>1 DEF PositiveInv
<1>2. CASE ReadInt
  <2> DEFINE field == Ints[Cardinality(DOMAIN ints) + 1]
             value(raw) == [f \in DOMAIN ints \cup {field} |->
                              IF f # field THEN ints[f]
                              ELSE IF raw = Unset THEN Default[f] ELSE Narrow(raw)]
  <2>1. PICK raw \in RawInt \cup {Unset} :
          \/ UNCHANGED ints
          \/ (raw # Unset => ~(raw <= 0)) /\ ints' = value(raw)
    BY <1>2 DEF ReadInt
  <2>f. field \in IntName
    BY <1>2, NextIntIsOne DEF ReadInt, IInv, TypeOK
  <2> HIDE DEF field
  <2>2. SUFFICES ASSUME raw # Unset => ~(raw <= 0), ints' = value(raw)
                 PROVE  PositiveInv'
    BY <1>1, <2>1
  <2>3. raw # Unset => Narrow(raw) \in Nat \ {0}
    <3> SUFFICES ASSUME raw # Unset PROVE Narrow(raw) \in Nat \ {0}
      OBVIOUS
    <3>0. raw \in RawInt /\ raw \in Int /\ ~(raw <= 0)
      BY <2>2, StartupAssumption
    <3>1. raw \in RawInt /\ raw \in Int /\ raw > 0
      BY <3>0
    <3>2. Narrow(raw) = raw
      BY <3>1, NarrowKeeps DEF IntsFit
    <3>3. QED
      BY <3>1, <3>2
  <2>4. Default[field] \in Nat \ {0}
    BY <2>f, DefaultsPositive
  <2>5. QED
    BY <2>2, <2>3, <2>4 DEF PositiveInv
<1>3. QED
  BY <1>1, <1>2 DEF Next, ParseArgs, ShowHelp, RefuseArg, TakeValue, TakeDryRun,
     TakeCommand, EndArgs, LoadDotenv, LoadConfig, ConfigMalformed, RelevanceOk,
     ReadRecipient, RecipientsOk, ReadTokenVar, CheckThresholds, ZoneOk,
     SkipSecrets, RefuseSecrets, ResolveSecrets, config, vars

\* Every integer the program works with is positive, provided that no integer
\* of the file is too large for an int.
THEOREM IntsStayPositive == IntsFit => (Spec => []PositiveInv)
<1> SUFFICES ASSUME IntsFit PROVE Spec => []PositiveInv
  OBVIOUS
<1>1. Init => PositiveInv
  BY InitPositive
<1>2. IInv /\ PositiveInv /\ [Next]_vars => PositiveInv'
  BY StepKeepsPositive
<1>3. QED
  BY <1>1, <1>2, StartupInvariance, PTL DEF Spec

\* The message of optionalPositiveInt is true then (config.cpp:33).
THEOREM AcceptedAsPromised == IntsFit => (Spec => []AcceptedIntsPositive)
<1> SUFFICES ASSUME IntsFit PROVE Spec => []AcceptedIntsPositive
  OBVIOUS
<1>1. IInv /\ PositiveInv => AcceptedIntsPositive
  <2> SUFFICES ASSUME IInv, PositiveInv, pc = "run", NEW f \in IntName
               PROVE  ints[f] > 0
    BY DEF AcceptedIntsPositive
  <2>1. f \in DOMAIN ints
    BY DEF IInv, ConfigInv
  <2>2. QED
    BY <2>1 DEF PositiveInv
<1>2. QED
  BY <1>1, StartupInvariance, IntsStayPositive, PTL

\* The decision core and the watch loop start with a policy they can rely on:
\* what AlertCore and WatchLoop assume of their constants.
THEOREM PolicyIsReliable == IntsFit => (Spec => []PolicyIsSound)
<1> SUFFICES ASSUME IntsFit PROVE Spec => []PolicyIsSound
  OBVIOUS
<1>1. IInv /\ PositiveInv => PolicyIsSound
  <2> SUFFICES ASSUME IInv, PositiveInv, pc = "run" PROVE PolicyIsSound
    BY DEF PolicyIsSound
  <2>1. DOMAIN ints = IntName /\ ints["imminent"] < ints["soon"]
    BY DEF IInv, ConfigInv, Ordered
  <2>2. \A f \in IntName : ints[f] \in Nat \ {0}
    BY <2>1 DEF PositiveInv
  <2>3. ASSUME NEW f \in IntName \ {"poll"}
        PROVE  policy[f] = ints[f] * SecondsIn[f] /\ SecondsIn[f] \in {60, 3600, 86400}
    BY <2>3, IntNames DEF policy, SecondsIn
  <2>4. \A x, y \in Nat \ {0} : x * 60 > 0 /\ x * 3600 > 0 /\ x * 86400 > 0
                                 /\ (x < y => x * 60 < y * 60)
    OBVIOUS
  <2>5. \A f \in DOMAIN policy : policy[f] > 0
    <3>1. DOMAIN policy = IntName \ {"poll"}
      BY DEF policy
    <3>2. QED
      BY <2>2, <2>3, <2>4, <3>1
  <2>6. policy["imminent"] < policy["soon"]
    <3>1. "imminent" \in IntName \ {"poll"} /\ "soon" \in IntName \ {"poll"}
      BY IntNames
    <3>2. SecondsIn["imminent"] = 60 /\ SecondsIn["soon"] = 60
      BY DEF SecondsIn
    <3>3. QED
      BY <2>1, <2>2, <2>3, <2>4, <3>1, <3>2
  <2>7. ints["poll"] > 0
    BY <2>2, IntNames
  <2>8. QED
    BY <2>5, <2>6, <2>7 DEF PolicyIsSound
<1>2. QED
  BY <1>1, StartupInvariance, IntsStayPositive, PTL
=============================================================================
