------------------------------- MODULE Startup -------------------------------
(***************************************************************************)
(* From the process arguments to a command about to run: parseArgs and     *)
(* runMain (src/src/cli.cpp), loadDotenv, loadConfig and resolveSecrets    *)
(* (src/src/config.cpp).                                                   *)
(*                                                                         *)
(* The file's fields are chosen when the code first reads them.  A string  *)
(* is what trim leaves of it, Blank when that is empty or when the field   *)
(* is missing or no string.  TOML integers have RawWidth bits and the      *)
(* program's int has IntWidth (64 and 32 in the code); optionalPositiveInt *)
(* checks the first and keeps the second.                                  *)
(***************************************************************************)
EXTENDS Integers, Sequences, FiniteSets

CONSTANTS
  Arg,            \* command line arguments used
  MaxArgs,        \* bound: arguments
  Var,            \* names of environment variables
  Secret,         \* values of environment variables
  Name,           \* recipient names
  MaxRecipients,  \* bound: recipients
  RawInt,         \* integers the file may hold
  IntWidth,       \* bits of an int
  Blank,          \* no text after trimming
  Unset           \* no variable, no field, no value yet

ASSUME StartupAssumption ==
  /\ {MaxArgs, MaxRecipients} \subseteq Nat
  /\ RawInt \subseteq Int
  /\ IntWidth \in Nat \ {0}
  /\ Unset \notin RawInt
  /\ {Blank, Unset} \cap (Var \cup Secret \cup Name) = {}

Commands == {"once", "watch", "test-notification"}

\* The policy's integers, in the order loadConfig reads them, with defaults.
Ints == <<"soon", "imminent", "shift", "lookahead", "poll", "retention">>
IntName == {Ints[i] : i \in 1 .. Len(Ints)}
Default == [soon |-> 60, imminent |-> 10, shift |-> 30, lookahead |-> 30,
            poll |-> 5, retention |-> 30]

Recipient == [name : Name \cup {Blank}, var : Var \cup {Blank}]

VARIABLES
  pc,          \* what runMain does next, or how it ended
  exit,        \* exit code, Unset while running
  args,        \* arguments left to parse
  command,     \* ParsedArgs.command, "" if none yet
  dryRun,      \* ParsedArgs.dryRun
  given,       \* environment the process was started with
  env,         \* environment now
  recipients,  \* Config.recipients
  tokenVar,    \* Config.pushoverTokenEnv
  ints,        \* the policy's integers read so far
  secrets      \* PushoverSecrets: token and user key of each recipient name

parsed == <<args, command, dryRun>>
config == <<recipients, tokenVar, ints>>
vars == <<pc, exit, parsed, given, env, config, secrets>>

Init ==
  /\ pc = "args"
  /\ exit = Unset
  /\ \E n \in 0 .. MaxArgs : args \in [1 .. n -> Arg]
  /\ command = ""
  /\ dryRun = FALSE
  /\ given \in [Var -> Secret \cup {Blank, Unset}]
  /\ env = given
  /\ recipients = <<>>
  /\ tokenVar = Unset
  /\ ints = [i \in {} |-> 0]
  /\ secrets = [token |-> Unset, keys |-> [n \in {} |-> Unset]]

\* runMain returns without having run a command.
Exits(code) == pc' = "exited" /\ exit' = code
Continues(from, to) == pc = from /\ pc' = to /\ UNCHANGED exit

-----------------------------------------------------------------------------
(* parseArgs *)

Help == {"--help", "-h"}
WithValue == {"--config", "--env-file"}

\* Mutant: --dry-run is taken with any command.
Refused_DryRunAnywhere ==
  \/ Head(args) \in WithValue /\ Len(args) = 1
  \/ Head(args) \notin Help \cup WithValue \cup {"--dry-run"} /\ command # ""

\* Why the argument at the head is an error.
Refused ==
  \/ Head(args) \in WithValue /\ Len(args) = 1
  \/ Head(args) = "--dry-run" /\ command # "once"
  \/ Head(args) \notin Help \cup WithValue \cup {"--dry-run"} /\ command # ""

Parsing == pc = "args" /\ args # <<>>

ShowHelp ==
  /\ Parsing /\ Head(args) \in Help
  /\ Exits(0)
  /\ UNCHANGED <<parsed, given, env, config, secrets>>

RefuseArg ==
  /\ Parsing /\ Refused
  /\ Exits(2)
  /\ UNCHANGED <<parsed, given, env, config, secrets>>

\* --config and --env-file take the next argument, whatever it is.
TakeValue ==
  /\ Parsing /\ Head(args) \in WithValue /\ ~Refused
  /\ args' = Tail(Tail(args))
  /\ UNCHANGED <<pc, exit, command, dryRun, given, env, config, secrets>>

TakeDryRun ==
  /\ Parsing /\ Head(args) = "--dry-run" /\ ~Refused
  /\ args' = Tail(args)
  /\ dryRun' = TRUE
  /\ UNCHANGED <<pc, exit, command, given, env, config, secrets>>

TakeCommand ==
  /\ Parsing /\ Head(args) \notin Help \cup WithValue \cup {"--dry-run"}
  /\ ~Refused
  /\ args' = Tail(args)
  /\ command' = Head(args)
  /\ UNCHANGED <<pc, exit, dryRun, given, env, config, secrets>>

EndArgs ==
  /\ pc = "args" /\ args = <<>>
  /\ IF command \in Commands THEN pc' = "dotenv" /\ UNCHANGED exit ELSE Exits(2)
  /\ UNCHANGED <<parsed, given, env, config, secrets>>

-----------------------------------------------------------------------------
(* loadDotenv *)

\* Mutant: the file overrides the environment.
loadDotenv_Overrides(file) ==
  [v \in Var |-> IF file[v] # Unset THEN file[v] ELSE env[v]]

\* setenv without overwriting: of two lines for a variable the first counts.
loadDotenv(file) == [v \in Var |-> IF env[v] = Unset THEN file[v] ELSE env[v]]

LoadDotenv ==
  /\ Continues("dotenv", "relevance")
  /\ \E file \in [Var -> Secret \cup {Blank, Unset}] : env' = loadDotenv(file)
  /\ UNCHANGED <<parsed, given, config, secrets>>

-----------------------------------------------------------------------------
(* loadConfig *)

\* A missing or malformed file, no provider, an empty list of terms or a
\* blank term; no recipient, a blank field of one, a blank token variable, an
\* unknown time zone.
ConfigMalformed ==
  /\ pc \in {"relevance", "recipients", "token", "zone"}
  /\ Exits(2)
  /\ UNCHANGED <<parsed, given, env, config, secrets>>

RelevanceOk ==
  /\ Continues("relevance", "recipients")
  /\ UNCHANGED <<parsed, given, env, config, secrets>>

\* Mutant: two recipients may have the same name.
NameFree_Always(name) == TRUE

NameFree(name) == \A i \in 1 .. Len(recipients) : recipients[i].name # name

\* The next recipient: both fields non-blank, the name not used before.
ReadRecipient ==
  /\ pc = "recipients" /\ Len(recipients) < MaxRecipients
  /\ \E r \in Recipient :
       IF Blank \notin {r.name, r.var} /\ NameFree(r.name)
       THEN recipients' = Append(recipients, r) /\ UNCHANGED <<pc, exit>>
       ELSE Exits(2) /\ UNCHANGED recipients
  /\ UNCHANGED <<parsed, given, env, tokenVar, ints, secrets>>

RecipientsOk ==
  /\ recipients # <<>>
  /\ Continues("recipients", "token")
  /\ UNCHANGED <<parsed, given, env, config, secrets>>

ReadTokenVar ==
  /\ Continues("token", "ints")
  /\ tokenVar' \in Var
  /\ UNCHANGED <<parsed, given, env, recipients, ints, secrets>>

\* static_cast<int> of a wider integer keeps its low bits.
Narrow(n) ==
  LET half == 2 ^ (IntWidth - 1)
  IN ((n + half) % (2 * half)) - half

\* optionalPositiveInt: the default when absent, an error unless positive.
ReadInt ==
  LET field == Ints[Cardinality(DOMAIN ints) + 1]
  IN /\ pc = "ints" /\ DOMAIN ints # IntName
     /\ \E raw \in RawInt \cup {Unset} :
          IF raw # Unset /\ raw <= 0
          THEN Exits(2) /\ UNCHANGED ints
          ELSE /\ ints' = [f \in DOMAIN ints \cup {field} |->
                             IF f # field THEN ints[f]
                             ELSE IF raw = Unset THEN Default[f] ELSE Narrow(raw)]
               /\ UNCHANGED <<pc, exit>>
     /\ UNCHANGED <<parsed, given, env, recipients, tokenVar, secrets>>

\* Mutant: equal thresholds are accepted.
Ordered_Weakly == ints["imminent"] <= ints["soon"]

Ordered == ints["imminent"] < ints["soon"]

CheckThresholds ==
  /\ pc = "ints" /\ DOMAIN ints = IntName
  /\ IF Ordered THEN pc' = "zone" /\ UNCHANGED exit ELSE Exits(2)
  /\ UNCHANGED <<parsed, given, env, config, secrets>>

ZoneOk ==
  /\ Continues("zone", "secrets")
  /\ UNCHANGED <<parsed, given, env, config, secrets>>

-----------------------------------------------------------------------------
(* resolveSecrets *)

NeedsSecrets == ~dryRun

Readable(v) == env[v] \notin {Unset, Blank}

SkipSecrets ==
  /\ ~NeedsSecrets
  /\ Continues("secrets", "run")
  /\ UNCHANGED <<parsed, given, env, config, secrets>>

SecretsMissing ==
  \/ ~Readable(tokenVar)
  \/ \E i \in 1 .. Len(recipients) : ~Readable(recipients[i].var)

RefuseSecrets ==
  /\ pc = "secrets" /\ NeedsSecrets /\ SecretsMissing
  /\ Exits(2)
  /\ UNCHANGED <<parsed, given, env, config, secrets>>

\* The map is filled in the recipients' order; a later entry of the same name
\* would replace an earlier one.
ResolveSecrets ==
  LET KeyOf(n) ==
        LET last == CHOOSE i \in 1 .. Len(recipients) :
              /\ recipients[i].name = n
              /\ \A j \in i + 1 .. Len(recipients) : recipients[j].name # n
        IN env[recipients[last].var]
  IN /\ Continues("secrets", "run")
     /\ NeedsSecrets /\ ~SecretsMissing
     /\ secrets' = [token |-> env[tokenVar],
                    keys |-> [n \in {recipients[i].name : i \in 1 .. Len(recipients)}
                                |-> KeyOf(n)]]
     /\ UNCHANGED <<parsed, given, env, config>>

\* AlertPolicy, its durations in seconds; kept apart is the poll interval.
SecondsIn == [soon |-> 60, imminent |-> 60, shift |-> 60, lookahead |-> 3600,
              retention |-> 86400]
policy == [f \in IntName \ {"poll"} |-> ints[f] * SecondsIn[f]]

ParseArgs ==
  ShowHelp \/ RefuseArg \/ TakeValue \/ TakeDryRun \/ TakeCommand \/ EndArgs

LoadConfig ==
  \/ ConfigMalformed \/ RelevanceOk \/ ReadRecipient \/ RecipientsOk
  \/ ReadTokenVar \/ ReadInt \/ CheckThresholds \/ ZoneOk

Next ==
  \/ ParseArgs \/ LoadDotenv \/ LoadConfig
  \/ SkipSecrets \/ RefuseSecrets \/ ResolveSecrets

Spec == Init /\ [][Next]_vars

-----------------------------------------------------------------------------
(* Properties *)

\* A command runs with a policy the decision core and the watch loop can rely
\* on, which is AlertCore's assumption about its constants: every duration
\* positive, imminent before soon (config.cpp:27-36, 47-55 and 141-143).
PolicyIsSound ==
  pc = "run" =>
    /\ ints["poll"] > 0
    /\ \A f \in DOMAIN policy : policy[f] > 0
    /\ policy["imminent"] < policy["soon"]

\* A command that notifies has, for every recipient, the key that recipient's
\* own variable holds (config.cpp:106-118 and 153-175), so that
\* PushoverChannel finds a key for every name (pushover.cpp:16-19).
EveryRecipientHasOwnKey ==
  pc = "run" /\ ~dryRun =>
    \A i \in 1 .. Len(recipients) :
      LET r == recipients[i]
      IN /\ r.name \in DOMAIN secrets.keys
         /\ secrets.keys[r.name] = env[r.var]
         /\ secrets.keys[r.name] \in Secret

\* No secret the process was started with is replaced by the .env file, not
\* even by way of another variable (config.hpp:66-67).
GivenSecretsUsed ==
  pc = "run" /\ ~dryRun =>
    /\ given[tokenVar] # Unset => secrets.token = given[tokenVar]
    /\ \A i \in 1 .. Len(recipients) :
         LET r == recipients[i]
         IN given[r.var] # Unset => secrets.keys[r.name] = given[r.var]

\* A command that may write or notify starts only with every secret, and a
\* dry run only for once.
RunsComplete ==
  pc = "run" => IF dryRun THEN command = "once" ELSE secrets.token \in Secret

\* config.cpp:33, an accepted value "must be a positive integer".
AcceptedIntsPositive == pc = "run" => \A f \in IntName : ints[f] > 0

-----------------------------------------------------------------------------
(* The inductive invariant behind them *)

\* No integer of the file is too large for an int.
IntsFit == \A n \in RawInt : n < 2 ^ (IntWidth - 1)

TypeOK ==
  /\ pc \in {"args", "dotenv", "relevance", "recipients", "token", "ints",
             "zone", "secrets", "run", "exited"}
  /\ args \in Seq(Arg)
  /\ command \in Arg \cup {""}
  /\ dryRun \in BOOLEAN
  /\ given \in [Var -> Secret \cup {Blank, Unset}]
  /\ env \in [Var -> Secret \cup {Blank, Unset}]
  /\ recipients \in Seq([name : Name, var : Var])
  /\ tokenVar \in Var \cup {Unset}
  /\ DOMAIN ints \subseteq IntName

ArgsInv ==
  /\ dryRun => command = "once"
  /\ pc \notin {"args", "exited"} => command \in Commands

\* The .env file only fills in.
EnvInv == \A v \in Var : given[v] # Unset => env[v] = given[v]

NamesDiffer ==
  \A i, j \in 1 .. Len(recipients) :
    recipients[i].name = recipients[j].name => i = j

\* What the stages of loadConfig behind have established.
ConfigInv ==
  /\ pc \in {"ints", "zone", "secrets", "run"} => tokenVar \in Var
  /\ pc \in {"zone", "secrets", "run"} => DOMAIN ints = IntName /\ Ordered

SecretsInv ==
  pc = "run" /\ ~dryRun =>
    /\ Readable(tokenVar) /\ secrets.token = env[tokenVar]
    /\ \A i \in 1 .. Len(recipients) :
         LET r == recipients[i]
         IN /\ Readable(r.var)
            /\ r.name \in DOMAIN secrets.keys
            /\ secrets.keys[r.name] = env[r.var]

IInv == TypeOK /\ ArgsInv /\ EnvInv /\ NamesDiffer /\ ConfigInv /\ SecretsInv

\* Inductive as well when IntsFit.
PositiveInv == \A f \in DOMAIN ints : ints[f] \in Nat \ {0}
=============================================================================
