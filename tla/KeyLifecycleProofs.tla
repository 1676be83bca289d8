------------------------- MODULE KeyLifecycleProofs -------------------------
(***************************************************************************)
(* ExposedOnlyWithTokens, ShownKeyInEnv and RestartRevokes for any number *)
(* of commands at a time, mnemonics and tokens, and any combination of     *)
(* faults.                                                                 *)
(*                                                                         *)
(* The first is not inductive: what the service finds in api-tokens.json depends  *)
(* on the configuration it has read before, on the one some command is     *)
(* about to save, and on how far an api-setup has come.  TokensFirst says  *)
(* that none of them has api.enabled before there is a tokens file, which  *)
(* nothing ever deletes.  MnemonicInv and TokenInv, further down, say of   *)
(* the other two what the commands that overlap may have in hand.          *)
(***************************************************************************)
EXTENDS KeyLifecycle, TLAPS

\* There is a tokens file wherever api.enabled is set or about to be set.
TokensFirst ==
    /\ config.api => tokens.st # "absent"
    /\ daemon.api => tokens.st # "absent"
    /\ \A p \in Procs :
         /\ pr[p].config.api => tokens.st # "absent"
         /\ pr[p].pc \in {"api_cert", "api_key", "api_config"}
              => tokens.st # "absent"
         /\ pr[p].pc \in {"api_tokens", "reset"} => pr[p].tokens.st = "ok"
KeyInv == TypeOK /\ TokensFirst /\ ExposedOnlyWithTokens

\* The values everything starts from are well typed.
LEMMA Empties ==
  /\ NoConfig \in ConfigFile /\ ~NoConfig.api
  /\ NoEnv \in EnvFile
  /\ NoTokens \in TokensFile
  /\ Idle \in Proc /\ Idle.pc = "idle" /\ Idle.config = NoConfig
  /\ Off \in Daemon /\ ~Off.api /\ Off.st = "off"
  <1>1. 0 \in Keys /\ 0 \in Tokens
    BY KeyAssumption DEF Keys, Tokens
  <1>2. NoConfig \in ConfigFile /\ ~NoConfig.api
    BY <1>1 DEF NoConfig, ConfigFile, File
  <1>3. NoEnv \in EnvFile
    BY <1>1 DEF NoEnv, EnvFile, File
  <1>4. NoTokens \in TokensFile
    BY <1>1 DEF NoTokens, TokensFile, File
  <1>5. Idle \in Proc /\ Idle.pc = "idle" /\ Idle.config = NoConfig
    BY <1>1, <1>2, <1>4 DEF Idle, Proc
  <1>6. Off \in Daemon /\ ~Off.api /\ Off.st = "off"
    BY <1>1, <1>4 DEF Off, Daemon
  <1> QED
    BY <1>2, <1>3, <1>4, <1>5, <1>6

\* What a command may leave of itself: well-typed locals that respect
\* TokensFirst for the tokens file t.
ProcOK(r, t) ==
    /\ r \in Proc
    /\ r.config.api => t.st # "absent"
    /\ r.pc \in {"api_cert", "api_key", "api_config"} => t.st # "absent"
    /\ r.pc \in {"api_tokens", "reset"} => r.tokens.st = "ok"

\* A step of a command: one command's locals change, the tokens file does not
\* disappear, and a configuration with api.enabled is saved only beside it.
LEMMA CommandKeeps ==
  ASSUME KeyInv, NEW p \in Procs, NEW r,
         pr' = [pr EXCEPT ![p] = r],
         ProcOK(r, tokens'),
         config' \in ConfigFile,
         config'.api => tokens'.st # "absent",
         tokens' \in TokensFile,
         tokens.st # "absent" => tokens'.st # "absent",
         env' \in EnvFile,
         tls' \in [cert : Tokens, key : Tokens],
         daemon' \in Daemon,
         daemon' = daemon \/ (~daemon'.api /\ daemon'.st # "on"),
         keys' \in Keys, issued' \in Tokens,
         shown' \subseteq Keys, revoked' \subseteq Tokens,
         over' \in BOOLEAN, lost' \in BOOLEAN,
         UNCHANGED <<paired, usb, refused>>
  PROVE  KeyInv'
  <1>1. pr' \in [Procs -> Proc]
    BY DEF ProcOK, KeyInv, TypeOK
  <1>2. TypeOK'
    BY <1>1 DEF KeyInv, TypeOK
  <1>3. \A q \in Procs : ProcOK(pr'[q], tokens')
    BY DEF ProcOK, KeyInv, TypeOK, TokensFirst
  <1>4. daemon'.api => tokens'.st # "absent"
    BY DEF KeyInv, TokensFirst
  <1>5. TokensFirst'
    BY <1>3, <1>4 DEF TokensFirst, ProcOK
  <1>6. ExposedOnlyWithTokens'
    BY DEF KeyInv, ExposedOnlyWithTokens
  <1> QED
    BY <1>2, <1>5, <1>6 DEF KeyInv

\* A new command: its locals are those of Idle but for what it has loaded and
\* generated.
LEMMA StartKeeps ==
  ASSUME KeyInv, NEW p \in Procs, Start(p)
  PROVE  KeyInv'
  <1>a. /\ config \in ConfigFile /\ env \in EnvFile /\ tokens \in TokensFile
        /\ tls \in [cert : Tokens, key : Tokens]
        /\ daemon \in Daemon /\ keys \in Keys /\ issued \in Tokens
        /\ shown \subseteq Keys /\ revoked \subseteq Tokens
        /\ over \in BOOLEAN /\ lost \in BOOLEAN
        /\ pr[p] \in Proc
    BY DEF KeyInv, TypeOK
  <1>b. /\ ProcOK(pr[p], tokens)
        /\ config.api => tokens.st # "absent"
    BY <1>a DEF KeyInv, TokensFirst, ProcOK
  <1>c. ProcOK(Idle, tokens)
    BY Empties DEF ProcOK
  <1>1. ASSUME keys < MaxKeys PROVE keys + 1 \in Keys
    BY <1>1, <1>a, KeyAssumption DEF Keys
  <1>2. CASE Setup(p)
    <2> DEFINE r == [Idle EXCEPT !.pc = "set_config", !.key = keys + 1]
    <2>1. keys + 1 \in Keys
      BY <1>1, <1>2 DEF Setup
    <2>2. ProcOK(r, tokens)
      BY <2>1, Empties DEF ProcOK, Proc
    <2>3. pr' = [pr EXCEPT ![p] = r]
      BY <1>2 DEF Setup
    <2> HIDE DEF r
    <2> QED
      BY <1>2, <1>a, <1>b, <2>1, <2>2, <2>3, CommandKeeps
         DEF Setup, files, transfer, history
  <1>3. CASE Rotate(p)
    <2> DEFINE r == [Idle EXCEPT !.pc = "rot_config", !.config = config,
                                 !.key = keys + 1]
    <2>1. keys + 1 \in Keys
      BY <1>1, <1>3 DEF Rotate
    <2>2. ProcOK(r, tokens)
      BY <1>a, <1>b, <2>1, Empties DEF ProcOK, Proc
    <2>3. pr' = [pr EXCEPT ![p] = r]
      BY <1>3 DEF Rotate
    <2> HIDE DEF r
    <2> QED
      BY <1>3, <1>a, <1>b, <2>1, <2>2, <2>3, CommandKeeps
         DEF Rotate, files, transfer, history
  <1>4. CASE ApiSetup(p)
    <2> DEFINE new == [st |-> "ok", readonly |-> issued + 1, admin |-> issued + 2]
               r == [Idle EXCEPT !.pc = "api_tokens", !.config = config,
                                 !.tokens = new]
    <2>1. issued + 1 \in Tokens /\ issued + 2 \in Tokens
      BY <1>4, <1>a, KeyAssumption DEF ApiSetup, Tokens
    <2>2. new \in TokensFile /\ new.st = "ok"
      BY <2>1 DEF TokensFile, File
    <2>3. pr' = [pr EXCEPT ![p] = r]
      BY <1>4 DEF ApiSetup
    <2> HIDE DEF new
    <2>4. ProcOK(r, tokens)
      BY <1>a, <1>b, <2>2, Empties DEF ProcOK, Proc
    <2> HIDE DEF r
    <2> QED
      BY <1>4, <1>a, <1>b, <2>1, <2>3, <2>4, CommandKeeps
         DEF ApiSetup, files, transfer, history
  <1>5. ASSUME NEW kind \in {"readonly", "admin"}, ApiReset(p, kind)
        PROVE  KeyInv'
    <2> DEFINE new == [tokens EXCEPT ![kind] = issued + 1]
               r == [Idle EXCEPT !.pc = "reset", !.had = tokens,
                                 !.tokens = new]
    <2>1. issued + 1 \in Tokens
      BY <1>5, <1>a, KeyAssumption DEF ApiReset, Tokens
    <2>2. new \in TokensFile /\ new.st = "ok"
      BY <1>5, <1>a, <2>1 DEF TokensFile, ApiReset
    <2>3. pr' = [pr EXCEPT ![p] = r]
      BY <1>5 DEF ApiReset
    <2> HIDE DEF new
    <2>4. ProcOK(r, tokens)
      BY <1>a, <1>b, <2>2, Empties DEF ProcOK, Proc
    <2> HIDE DEF r
    <2> QED
      BY <1>5, <1>a, <1>b, <2>1, <2>3, <2>4, CommandKeeps
         DEF ApiReset, files, transfer, history
  <1> QED
    BY <1>2, <1>3, <1>4, <1>5 DEF Start

\* A service that is being started has no api setting yet.
LEMMA LaunchType ==
  ASSUME KeyInv, Launch
  PROVE  daemon' \in Daemon /\ ~daemon'.api /\ daemon'.st = "env"
  <1> DEFINE k == IF env.st = "ok" THEN env.key ELSE 0
  <1>1. k \in Keys /\ revoked \in SUBSET Tokens
    BY KeyAssumption DEF KeyInv, TypeOK, EnvFile, Keys
  <1>2. daemon' = [Off EXCEPT !.st = "env", !.gone = revoked, !.key = k]
    BY DEF Launch
  <1> HIDE DEF k
  <1> QED
    BY <1>1, <1>2, Empties DEF Daemon

\* Each step of a command that runs: api_config is the one that sets
\* api.enabled, and it comes after api_tokens.
LEMMA StepKeeps ==
  ASSUME KeyInv, NEW p \in Procs, Step(p)
  PROVE  KeyInv'
  <1>a. /\ config \in ConfigFile /\ env \in EnvFile /\ tokens \in TokensFile
        /\ tls \in [cert : Tokens, key : Tokens]
        /\ daemon \in Daemon /\ keys \in Keys /\ issued \in Tokens
        /\ shown \subseteq Keys /\ revoked \subseteq Tokens
        /\ over \in BOOLEAN /\ lost \in BOOLEAN
        /\ pr[p] \in Proc
    BY DEF KeyInv, TypeOK
  <1>b. /\ ProcOK(pr[p], tokens)
        /\ config.api => tokens.st # "absent"
    BY <1>a DEF KeyInv, TokensFirst, ProcOK
  <1>c. ProcOK(Idle, tokens) /\ ProcOK(Idle, tokens')
    BY Empties DEF ProcOK
  <1>d. /\ pr[p].config \in ConfigFile /\ pr[p].key \in Keys
        /\ pr[p].tokens \in TokensFile /\ pr[p].had \in TokensFile
        /\ pr[p].tokens.admin \in Tokens
    BY <1>a DEF Proc, TokensFile
  <1>e. ASSUME NEW l \in {"set_material", "set_env", "set_start", "set_show",
                         "rot_env", "rot_show", "api_key", "api_config"},
               l \in {"api_key", "api_config"} => tokens.st # "absent"
        PROVE  ProcOK([pr[p] EXCEPT !.pc = l], tokens)
    BY <1>a, <1>b, <1>e DEF ProcOK, Proc
  <1> USE DEF At, Goto, Exit
  <1>1. CASE SetupConfig(p)
    <2> DEFINE new == [st |-> "ok", key |-> pr[p].key, prev |-> 0, api |-> FALSE]
    <2>1. new \in ConfigFile /\ ~new.api
      BY <1>d, KeyAssumption DEF ConfigFile, File, Keys
    <2>2. config' = new /\ lost' \in BOOLEAN
      BY <1>1 DEF SetupConfig, SaveConfig
    <2>3. pr' = [pr EXCEPT ![p] = [pr[p] EXCEPT !.pc = "set_material"]]
      BY <1>1, <1>a DEF SetupConfig
    <2> HIDE DEF new
    <2> QED
      BY <1>1, <1>a, <1>b, <1>e, <2>1, <2>2, <2>3, CommandKeeps
         DEF SetupConfig, counters, transfer
  <1>2. CASE SetupMaterial(p)
    <2>1. PICK b \in BOOLEAN :
             pr' = [pr EXCEPT ![p].pc = "set_env", ![p].bound = b]
      BY <1>2 DEF SetupMaterial
    <2> DEFINE r == [pr[p] EXCEPT !.pc = "set_env", !.bound = b]
    <2>2. pr' = [pr EXCEPT ![p] = r]
      BY <2>1
    <2>3. ProcOK(r, tokens)
      BY <1>a, <1>b DEF ProcOK, Proc
    <2> HIDE DEF r
    <2> QED
      BY <1>2, <1>a, <1>b, <2>2, <2>3, CommandKeeps
         DEF SetupMaterial, files, counters, transfer, history
  <1>3. ASSUME SaveEnv(p) PROVE env' \in EnvFile /\ lost' \in BOOLEAN
    BY <1>3, <1>d DEF SaveEnv, EnvFile, File
  <1>4. CASE SetupEnv(p)
    <2>1. \/ pr' = [pr EXCEPT ![p] = [pr[p] EXCEPT !.pc = "set_start"]]
          \/ pr' = [pr EXCEPT ![p] = Idle]
      BY <1>4 DEF SetupEnv
    <2>2. SaveEnv(p)
      BY <1>4 DEF SetupEnv
    <2> QED
      BY <1>4, <1>a, <1>b, <1>c, <1>e, <1>3, <2>1, <2>2, CommandKeeps
         DEF SetupEnv, counters, transfer
  <1>5. CASE SetupStart(p)
    <2>1. pr' = [pr EXCEPT ![p] = [pr[p] EXCEPT !.pc = "set_show"]]
      BY <1>5 DEF SetupStart
    <2>2. UNCHANGED daemon \/ Launch
      BY <1>5 DEF SetupStart
    <2>3. /\ daemon' \in Daemon
          /\ daemon' = daemon \/ (~daemon'.api /\ daemon'.st # "on")
      BY <1>a, <2>2, LaunchType
    <2> QED
      BY <1>5, <1>a, <1>b, <1>e, <2>1, <2>3, CommandKeeps
         DEF SetupStart, files, counters, transfer, history
  <1>6. CASE RotateConfig(p)
    <2> DEFINE new == [st |-> "ok", key |-> pr[p].key,
                       prev |-> pr[p].config.key, api |-> pr[p].config.api]
    <2>1. new \in ConfigFile /\ new.api = pr[p].config.api
      BY <1>d DEF ConfigFile, File
    <2>2. config' = new /\ lost' \in BOOLEAN
      BY <1>6 DEF RotateConfig, SaveConfig
    <2>3. pr' = [pr EXCEPT ![p] = [pr[p] EXCEPT !.pc = "rot_env"]]
      BY <1>6 DEF RotateConfig
    <2>4. new.api => tokens.st # "absent"
      BY <1>b, <2>1 DEF ProcOK
    <2> HIDE DEF new
    <2> QED
      BY <1>6, <1>a, <1>b, <1>e, <2>1, <2>2, <2>3, <2>4, CommandKeeps
         DEF RotateConfig, counters
  <1>7. CASE RotateEnv(p)
    <2>1. pr' = [pr EXCEPT ![p] = [pr[p] EXCEPT !.pc = "rot_show"]]
      BY <1>7 DEF RotateEnv
    <2>2. SaveEnv(p)
      BY <1>7 DEF RotateEnv
    <2> QED
      BY <1>7, <1>a, <1>b, <1>e, <1>3, <2>1, <2>2, CommandKeeps
         DEF RotateEnv, counters, transfer
  <1>8. CASE ApiTokens(p)
    <2> DEFINE r == [pr[p] EXCEPT !.pc = "api_cert"]
    <2>1. pr' = [pr EXCEPT ![p] = r]
      BY <1>8 DEF ApiTokens
    <2>2. tokens' = pr[p].tokens /\ lost' \in BOOLEAN /\ tokens'.st = "ok"
      BY <1>8, <1>b DEF ApiTokens, SaveTokens, ProcOK
    <2>3. ProcOK(r, tokens')
      BY <1>a, <2>2 DEF ProcOK, Proc
    <2> HIDE DEF r
    <2> QED
      BY <1>8, <1>a, <1>d, <2>1, <2>2, <2>3, CommandKeeps
         DEF ApiTokens, counters, transfer
  <1>9. CASE ApiCert(p)
    <2>1. \/ pr' = [pr EXCEPT ![p] = [pr[p] EXCEPT !.pc = "api_key"]]
          \/ pr' = [pr EXCEPT ![p] = Idle]
      BY <1>9 DEF ApiCert
    <2>2. tls' \in [cert : Tokens, key : Tokens]
      BY <1>9, <1>a, <1>d DEF ApiCert
    <2>3. tokens.st # "absent"
      BY <1>9, <1>b DEF ApiCert, ProcOK
    <2> QED
      BY <1>9, <1>a, <1>b, <1>c, <1>e, <2>1, <2>2, <2>3, CommandKeeps
         DEF ApiCert, counters, transfer, history
  <1>10. CASE ApiKey(p)
    <2>1. pr' = [pr EXCEPT ![p] = [pr[p] EXCEPT !.pc = "api_config"]]
      BY <1>10 DEF ApiKey
    <2>2. tls' \in [cert : Tokens, key : Tokens]
      BY <1>10, <1>a, <1>d DEF ApiKey
    <2>3. tokens.st # "absent"
      BY <1>10, <1>b DEF ApiKey, ProcOK
    <2> QED
      BY <1>10, <1>a, <1>b, <1>e, <2>1, <2>2, <2>3, CommandKeeps
         DEF ApiKey, counters, transfer, history
  <1>11. CASE ApiConfig(p)
    <2>1. config' \in ConfigFile /\ lost' \in BOOLEAN
      BY <1>11, <1>d DEF ApiConfig, SaveConfig, ConfigFile
    <2>2. tokens.st # "absent"
      BY <1>11, <1>b DEF ApiConfig, ProcOK
    <2> QED
      BY <1>11, <1>a, <1>c, <2>1, <2>2, CommandKeeps
         DEF ApiConfig, counters, transfer
  <1>12. CASE ResetSave(p)
    <2>1. tokens' = pr[p].tokens /\ lost' \in BOOLEAN /\ tokens'.st = "ok"
      BY <1>12, <1>b DEF ResetSave, SaveTokens, ProcOK
    <2>2. revoked' \subseteq Tokens
      BY <1>12, <1>a, <1>d DEF ResetSave, TokensFile
    <2> QED
      BY <1>12, <1>a, <1>c, <1>d, <2>1, <2>2, CommandKeeps
         DEF ResetSave, counters, transfer
  <1>13. CASE Show(p)
    BY <1>13, <1>a, <1>b, <1>c, <1>d, CommandKeeps
       DEF Show, files, counters, transfer
  <1> QED
    BY <1>1, <1>2, <1>4, <1>5, <1>6, <1>7, <1>8, <1>9, <1>10, <1>11, <1>12,
       <1>13 DEF Step, SetupStep, RotateStep, ApiStep

\* A killed command may tear a file; it does not delete one.
LEMMA KillKeeps ==
  ASSUME KeyInv, NEW p \in Procs, Kill(p)
  PROVE  KeyInv'
  <1>a. /\ config \in ConfigFile /\ env \in EnvFile /\ tokens \in TokensFile
        /\ tls \in [cert : Tokens, key : Tokens]
        /\ daemon \in Daemon /\ keys \in Keys /\ issued \in Tokens
        /\ shown \subseteq Keys /\ revoked \subseteq Tokens
        /\ over \in BOOLEAN /\ lost \in BOOLEAN
        /\ pr[p] \in Proc
    BY DEF KeyInv, TypeOK
  <1>b. /\ ProcOK(pr[p], tokens)
        /\ config.api => tokens.st # "absent"
    BY <1>a DEF KeyInv, TokensFirst, ProcOK
  <1>1. config' = config \/ config' = [config EXCEPT !.st = "torn"]
    BY DEF Kill, MayTear
  <1>2. env' = env \/ env' = [env EXCEPT !.st = "torn"]
    BY DEF Kill, MayTear
  <1>3. tokens' = tokens \/ tokens' = [tokens EXCEPT !.st = "torn"]
    BY DEF Kill, MayTear
  <1>4. config' \in ConfigFile /\ config'.api = config.api
    BY <1>1, <1>a DEF ConfigFile, File
  <1>5. env' \in EnvFile
    BY <1>2, <1>a DEF EnvFile, File
  <1>6. /\ tokens' \in TokensFile
        /\ tokens.st # "absent" => tokens'.st # "absent"
    BY <1>3, <1>a DEF TokensFile, File
  <1>7. ProcOK(Idle, tokens')
    BY Empties DEF ProcOK
  <1>8. pr' = [pr EXCEPT ![p] = Idle] /\ lost' \in BOOLEAN
    BY DEF Kill, Exit
  <1> QED
    BY <1>a, <1>b, <1>4, <1>5, <1>6, <1>7, <1>8, CommandKeeps
       DEF Kill, counters, transfer

\* The service: by TokensFirst, load_api_tokens finds a file if the
\* configuration has enabled the API.
LEMMA ServeKeeps ==
  ASSUME KeyInv, ServeStep \/ Stop
  PROVE  KeyInv'
  <1>1. UNCHANGED <<files, pr, counters, transfer, history>>
    BY DEF ServeStep, ServeEnv, ServeConfig, ServeTokens, Stop
  <1>2. SUFFICES /\ daemon' \in Daemon
                 /\ daemon'.api => tokens.st # "absent"
                 /\ daemon'.st = "on" /\ daemon'.api
                      => daemon'.tokens.st = "ok"
    <2>1. TypeOK'
      BY <1>1, <1>2 DEF KeyInv, TypeOK, files, counters, transfer, history
    <2>2. TokensFirst' /\ ExposedOnlyWithTokens'
      BY <1>1, <1>2 DEF KeyInv, TokensFirst, ExposedOnlyWithTokens, files
    <2> QED
      BY <2>1, <2>2 DEF KeyInv
  <1>a. /\ daemon \in Daemon /\ tokens \in TokensFile /\ config \in ConfigFile
        /\ config.api => tokens.st # "absent"
        /\ daemon.api => tokens.st # "absent"
    BY DEF KeyInv, TypeOK, TokensFirst
  <1>3. CASE ServeEnv
    BY <1>3, LaunchType DEF ServeEnv
  <1>4. CASE ServeConfig
    <2>1. \/ daemon' = [daemon EXCEPT !.st = "config", !.api = config.api]
          \/ daemon' = Off
      BY <1>4 DEF ServeConfig, NotReadable
    <2>2. CASE daemon' = Off
      BY <2>2, Empties
    <2>3. CASE daemon' = [daemon EXCEPT !.st = "config", !.api = config.api]
      <3>1. config.api \in BOOLEAN
        BY <1>a DEF ConfigFile
      <3>2. /\ daemon' \in Daemon
            /\ daemon'.st = "config" /\ daemon'.api = config.api
        BY <1>a, <2>3, <3>1 DEF Daemon
      <3> QED
        BY <1>a, <3>2
    <2> QED
      BY <2>1, <2>2, <2>3
  <1>5. CASE ServeTokens
    <2>1. CASE daemon' = Off
      BY <2>1, Empties
    <2>2. CASE ~daemon.api /\ daemon' = [daemon EXCEPT !.st = "on"]
      BY <1>a, <2>2 DEF Daemon
    <2>3. CASE /\ daemon.api /\ tokens.st # "torn"
               /\ daemon' = [daemon EXCEPT !.st = "on", !.tokens = tokens]
      <3>1. tokens.st = "ok"
        BY <1>a, <2>3 DEF TokensFile, File
      <3> QED
        BY <1>a, <2>3, <3>1 DEF Daemon
    <2>4. \/ daemon' = Off
          \/ ~daemon.api /\ daemon' = [daemon EXCEPT !.st = "on"]
          \/ /\ daemon.api /\ tokens.st # "torn"
             /\ daemon' = [daemon EXCEPT !.st = "on", !.tokens = tokens]
      BY <1>5, Zenon DEF ServeTokens, NotReadable
    <2> QED
      BY <2>1, <2>2, <2>3, <2>4
  <1>6. CASE Stop
    BY <1>6, Empties DEF Stop
  <1> QED
    BY <1>3, <1>4, <1>5, <1>6 DEF ServeStep

\* Transfers and the passing of time touch neither files nor the service.
LEMMA TransferKeeps ==
  ASSUME KeyInv,
         \/ \E k \in Keys \ {0} : Pair(k)
         \/ MakeRequest \/ MakeResponse \/ ImportResponse \/ GraceEnds
  PROVE  KeyInv'
  <1>1. UNCHANGED <<files, pr, daemon, counters, history>>
    BY DEF Pair, MakeRequest, MakeResponse, ImportResponse, GraceEnds
  <1>a. /\ daemon.key \in Keys /\ usb.key \in Keys /\ 0 \in Keys
        /\ usb \in [st : {"none", "request", "response"}, key : Keys]
        /\ refused \subseteq Keys /\ paired \in Keys /\ over \in BOOLEAN
    BY KeyAssumption DEF KeyInv, TypeOK, Daemon, Keys
  <1>2. /\ paired' \in Keys /\ over' \in BOOLEAN
        /\ usb' \in [st : {"none", "request", "response"}, key : Keys]
        /\ refused' \subseteq Keys
    <2>1. CASE \E k \in Keys \ {0} : Pair(k)
      BY <1>a, <2>1 DEF Pair
    <2>2. CASE MakeRequest
      BY <1>a, <2>2 DEF MakeRequest
    <2>3. CASE MakeResponse
      BY <1>a, <2>3 DEF MakeResponse
    <2>4. CASE ImportResponse
      <3>1. usb' = usb \/ usb' = [st |-> "none", key |-> 0]
        BY <2>4 DEF ImportResponse
      <3>2. refused' = refused \/ refused' = refused \cup {usb.key}
        BY <2>4 DEF ImportResponse
      <3> QED
        BY <1>a, <2>4, <3>1, <3>2 DEF ImportResponse
    <2>5. CASE GraceEnds
      BY <1>a, <2>5 DEF GraceEnds
    <2> QED
      BY <2>1, <2>2, <2>3, <2>4, <2>5
  <1>3. TypeOK'
    BY <1>1, <1>2 DEF KeyInv, TypeOK, files, counters, history
  <1>4. TokensFirst' /\ ExposedOnlyWithTokens'
    BY <1>1 DEF KeyInv, TokensFirst, ExposedOnlyWithTokens, files
  <1> QED
    BY <1>3, <1>4 DEF KeyInv

\* KeyInv holds at first and every step keeps it.
LEMMA KeyInit == Init => KeyInv
  <1> SUFFICES ASSUME Init PROVE KeyInv
    OBVIOUS
  <1>1. 0 \in Keys /\ 0 \in Tokens
    BY KeyAssumption DEF Keys, Tokens
  <1>2. TypeOK
    BY <1>1, Empties DEF Init, TypeOK
  <1>3. TokensFirst /\ ExposedOnlyWithTokens
    BY Empties DEF Init, TokensFirst, ExposedOnlyWithTokens
  <1> QED
    BY <1>2, <1>3 DEF KeyInv

LEMMA KeyStep == KeyInv /\ [Next]_vars => KeyInv'
  <1> SUFFICES ASSUME KeyInv, [Next]_vars PROVE KeyInv'
    OBVIOUS
  <1>1. CASE UNCHANGED vars
    BY <1>1 DEF vars, KeyInv, TypeOK, TokensFirst, ExposedOnlyWithTokens
  <1>2. CASE Next
    BY <1>2, StartKeeps, StepKeeps, KillKeeps, ServeKeeps, TransferKeeps
       DEF Next
  <1> QED
    BY <1>1, <1>2

\* A service that api-setup has opened to the network always has tokens to
\* compare with: load_api_tokens never returns None to it, although it treats
\* a missing file as "no authentication", and wherever commands are killed or
\* overlap.
THEOREM NeverOpenWithoutTokens == Spec => []ExposedOnlyWithTokens
  <1>1. KeyInv => ExposedOnlyWithTokens
    BY DEF KeyInv
  <1> QED
    BY <1>1, KeyInit, KeyStep, PTL DEF Spec

\* The files, the commands and the service keep their types, however the
\* commands are killed: no file is read that no command can have written.
THEOREM KeyTypes == Spec => []TypeOK
  <1>1. KeyInv => TypeOK
    BY DEF KeyInv
  <1> QED
    BY <1>1, KeyInit, KeyStep, PTL DEF Spec

-----------------------------------------------------------------------------
(* The mnemonic that has been shown *)

\* The commands that have generated a mnemonic and not shown it yet, and those
\* of them that have saved the env file.
Holding(p) == pr[p].pc \in {"set_config", "set_material", "set_env", "set_start",
                            "set_show", "rot_config", "rot_env", "rot_show"}
Saved(p) == pr[p].pc \in {"set_start", "set_show", "rot_show"}
EnvFits == env = [st |-> "ok", key |-> config.key]

\* Every command has a mnemonic of its own, which nobody has seen.
KeysNew ==
    /\ \A k \in shown : k <= keys
    /\ \A p \in Procs : Holding(p) =>
         /\ pr[p].key <= keys
         /\ pr[p].key \notin shown
         /\ \A q \in Procs : Holding(q) /\ q # p => pr[q].key # pr[p].key

\* The inductive form of ShownKeyInEnv: the env file fits the configuration
\* as soon as the command whose mnemonic is configured has saved it, before it
\* is shown, and even if the configuration has been torn since.
EnvFollows ==
    ~lost =>
      /\ config.key \in shown => EnvFits
      /\ \A p \in Procs : Saved(p) /\ config.key = pr[p].key => EnvFits
MnemonicInv == KeyInv /\ KeysNew /\ EnvFollows

\* What a step that writes neither hash nor mnemonic does to a command.
SameKey(p) ==
    \/ pr'[p] = pr[p]
    \/ ~Holding(p)'
    \/ Holding(p) /\ pr'[p].key = pr[p].key /\ (Saved(p)' => Saved(p))

\* Such a step keeps MnemonicInv.
LEMMA MnemonicKept ==
  ASSUME KeysNew, EnvFollows, \A p \in Procs : SameKey(p),
         UNCHANGED <<keys, shown>>, lost => lost',
         lost' \/ (config'.key = config.key /\ env' = env)
  PROVE  KeysNew' /\ EnvFollows'
  <1>1. KeysNew'
    BY DEF KeysNew, SameKey, Holding
  <1>2. ASSUME ~lost', NEW p \in Procs, Saved(p)'
        PROVE  Saved(p) /\ pr'[p].key = pr[p].key
    BY <1>2 DEF SameKey, Saved, Holding
  <1>3. EnvFollows'
    BY <1>2 DEF EnvFollows, EnvFits
  <1> QED
    BY <1>1, <1>3

\* setup and rotate-keys generate a mnemonic.
LEMMA MnemonicStart ==
  ASSUME MnemonicInv, NEW p \in Procs, Start(p)
  PROVE  KeysNew' /\ EnvFollows'
  <1> USE DEF MnemonicInv
  <1>a. pr \in [Procs -> Proc] /\ Idle \in Proc /\ keys \in Nat
    BY Empties DEF KeyInv, TypeOK, Keys
  <1>1. CASE Setup(p) \/ Rotate(p)
    <2>1. /\ pr'[p].key = keys + 1
          /\ pr'[p].pc \in {"set_config", "rot_config"}
          /\ \A q \in Procs : q # p => pr'[q] = pr[q]
          /\ keys' = keys + 1
          /\ UNCHANGED <<config, env, shown, lost>>
      <3>1. CASE Setup(p)
        BY <3>1, <1>a DEF Setup, Proc, files, history
      <3>2. CASE Rotate(p)
        BY <3>2, <1>a DEF Rotate, Proc, files, history
      <3> QED
        BY <1>1, <3>1, <3>2
    <2>2. /\ \A k \in shown : k \in Int /\ k <= keys
          /\ \A q \in Procs : pr[q].key \in Int
      BY DEF KeysNew, KeyInv, TypeOK, Keys, Proc
    <2>3. ASSUME NEW q \in Procs, Holding(q)'
          PROVE  /\ pr'[q].key <= keys'
                 /\ pr'[q].key \notin shown'
                 /\ \A r \in Procs : Holding(r)' /\ r # q => pr'[r].key # pr'[q].key
      <3>1. CASE q = p
        <4>1. ASSUME NEW r \in Procs, Holding(r)', r # q
              PROVE  pr'[r].key # pr'[q].key
          BY <3>1, <4>1, <1>a, <2>1, <2>2 DEF KeysNew, Holding
        <4> QED
          BY <3>1, <4>1, <1>a, <2>1, <2>2
      <3>2. CASE q # p
        <4>1. Holding(q) /\ pr'[q] = pr[q]
          BY <2>1, <2>3, <3>2 DEF Holding
        <4>2. pr[q].key <= keys /\ pr[q].key \notin shown
          BY <4>1 DEF KeysNew
        <4>3. ASSUME NEW r \in Procs, Holding(r)', r # q
              PROVE  pr'[r].key # pr'[q].key
          BY <4>1, <4>2, <4>3, <1>a, <2>1, <2>2 DEF KeysNew, Holding
        <4> QED
          BY <4>1, <4>2, <4>3, <1>a, <2>1, <2>2
      <3> QED
        BY <3>1, <3>2
    <2>4. \A k \in shown' : k <= keys'
      BY <1>a, <2>1, <2>2
    <2>5. KeysNew'
      BY <2>3, <2>4 DEF KeysNew
    <2>6. EnvFollows'
      BY <2>1 DEF EnvFollows, EnvFits, Saved
    <2> QED
      BY <2>5, <2>6
  <1>2. CASE ApiSetup(p) \/ (\E kind \in {"readonly", "admin"} : ApiReset(p, kind))
    <2>1. /\ pr'[p].pc \in {"api_tokens", "reset"}
          /\ \A q \in Procs : q # p => pr'[q] = pr[q]
          /\ UNCHANGED <<config, env, keys, shown, lost>>
      <3>1. CASE ApiSetup(p)
        BY <3>1, <1>a DEF ApiSetup, Proc, files, history
      <3>2. CASE \E kind \in {"readonly", "admin"} : ApiReset(p, kind)
        BY <3>2, <1>a DEF ApiReset, Proc, files, history
      <3> QED
        BY <1>2, <3>1, <3>2
    <2>2. \A q \in Procs : SameKey(q)
      BY <2>1 DEF SameKey, Holding
    <2> QED
      BY <2>1, <2>2, MnemonicKept
  <1> QED
    BY <1>1, <1>2 DEF Start

\* The steps of a command, among them the three that write the hash, write
\* the mnemonic and show it.
LEMMA MnemonicStep ==
  ASSUME MnemonicInv, NEW p \in Procs, Step(p)
  PROVE  KeysNew' /\ EnvFollows'
  <1> USE DEF MnemonicInv, At, Goto, Exit
  <1>a. /\ pr \in [Procs -> Proc] /\ pr[p] \in Proc
        /\ Idle \in Proc /\ Idle.pc = "idle"
    BY Empties DEF KeyInv, TypeOK
  <1>1. CASE SetupConfig(p) \/ RotateConfig(p)
    <2>1. /\ Holding(p) /\ Holding(p)' /\ ~Saved(p)'
          /\ pr'[p].key = pr[p].key /\ config'.key = pr[p].key
          /\ \A q \in Procs : q # p => pr'[q] = pr[q]
          /\ UNCHANGED <<keys, shown>>
          /\ lost => lost'
      <3>1. CASE SetupConfig(p)
        BY <3>1, <1>a
           DEF SetupConfig, SaveConfig, Holding, Saved, Proc, counters
      <3>2. CASE RotateConfig(p)
        BY <3>2, <1>a
           DEF RotateConfig, SaveConfig, Holding, Saved, Proc, counters
      <3> QED
        BY <1>1, <3>1, <3>2
    <2>2. KeysNew'
      BY <2>1 DEF KeysNew, Holding
    <2>3. ASSUME NEW q \in Procs, Saved(q)' PROVE pr'[q].key # config'.key
      BY <2>1, <2>3 DEF KeysNew, Holding, Saved
    <2>4. config'.key \notin shown'
      BY <2>1 DEF KeysNew
    <2> QED
      BY <2>2, <2>3, <2>4 DEF EnvFollows
  <1>2. CASE SetupEnv(p) \/ RotateEnv(p)
    <2>1. /\ Holding(p)
          /\ ~Holding(p)' \/ pr'[p].key = pr[p].key
          /\ \A q \in Procs : q # p => pr'[q] = pr[q]
          /\ env' = [st |-> "ok", key |-> pr[p].key]
          /\ UNCHANGED <<config, keys, shown>>
          /\ lost' \/ config.key = pr[p].key
      <3>1. CASE SetupEnv(p)
        <4>1. /\ pr[p].pc = "set_env"
              /\ env' = [st |-> "ok", key |-> pr[p].key]
              /\ lost' = (lost \/ config.key # pr[p].key)
              /\ UNCHANGED <<config, keys, shown>>
              /\ \/ pr' = [pr EXCEPT ![p].pc = "set_start"]
                 \/ pr' = [pr EXCEPT ![p] = Idle]
          BY <3>1 DEF SetupEnv, SaveEnv, counters
        <4>2. CASE pr' = [pr EXCEPT ![p].pc = "set_start"]
          BY <4>1, <4>2, <1>a DEF Holding, Proc
        <4>3. CASE pr' = [pr EXCEPT ![p] = Idle]
          BY <4>1, <4>3, <1>a DEF Holding
        <4> QED
          BY <4>1, <4>2, <4>3
      <3>2. CASE RotateEnv(p)
        BY <3>2, <1>a DEF RotateEnv, SaveEnv, Holding, Proc, counters
      <3> QED
        BY <1>2, <3>1, <3>2
    <2>2. KeysNew'
      BY <2>1 DEF KeysNew, Holding
    <2>3. ~lost' => EnvFits'
      BY <2>1 DEF EnvFits
    <2> QED
      BY <2>2, <2>3 DEF EnvFollows
  <1>3. CASE Show(p)
    <2>1. /\ Holding(p) /\ Saved(p) /\ ~Holding(p)'
          /\ \A q \in Procs : q # p => pr'[q] = pr[q]
          /\ shown' = shown \cup {pr[p].key}
          /\ UNCHANGED <<config, env, keys, lost>>
      BY <1>3, <1>a DEF Show, Holding, Saved, files, counters
    <2>2. KeysNew'
      BY <2>1 DEF KeysNew, Holding
    <2>3. EnvFollows'
      BY <2>1 DEF EnvFollows, EnvFits, Saved, Holding
    <2> QED
      BY <2>2, <2>3
  <1>4. CASE SetupMaterial(p) \/ SetupStart(p)
    <2>1. /\ \A q \in Procs : SameKey(q)
          /\ UNCHANGED <<config, env, keys, shown, lost>>
      <3>1. CASE SetupMaterial(p)
        BY <3>1, <1>a
           DEF SetupMaterial, SameKey, Holding, Saved, Proc, files, counters,
               history
      <3>2. CASE SetupStart(p)
        BY <3>2, <1>a
           DEF SetupStart, SameKey, Holding, Saved, Proc, files, counters,
               history
      <3> QED
        BY <1>4, <3>1, <3>2
    <2> QED
      BY <2>1, MnemonicKept
  <1>5. CASE ApiStep(p) \/ ResetSave(p)
    <2>1. /\ pr'[p].pc \in {"api_cert", "api_key", "api_config", "idle"}
          /\ \A q \in Procs : q # p => pr'[q] = pr[q]
          /\ UNCHANGED <<env, keys, shown>>
          /\ lost => lost'
          /\ lost' \/ config'.key = config.key
      <3>1. CASE ApiTokens(p)
        BY <3>1, <1>a DEF ApiTokens, SaveTokens, Proc, counters
      <3>2. CASE ApiCert(p)
        BY <3>2, <1>a DEF ApiCert, Proc, counters, history
      <3>3. CASE ApiKey(p)
        BY <3>3, <1>a DEF ApiKey, Proc, counters, history
      <3>4. CASE ApiConfig(p)
        <4>1. pr[p].config \in ConfigFile
          BY <1>a DEF Proc
        <4> QED
          BY <3>4, <4>1, <1>a DEF ApiConfig, SaveConfig, ConfigFile, counters
      <3>5. CASE ResetSave(p)
        BY <3>5, <1>a DEF ResetSave, SaveTokens, counters
      <3> QED
        BY <1>5, <3>1, <3>2, <3>3, <3>4, <3>5 DEF ApiStep
    <2>2. \A q \in Procs : SameKey(q)
      BY <2>1 DEF SameKey, Holding
    <2> QED
      BY <2>1, <2>2, MnemonicKept
  <1> QED
    BY <1>1, <1>2, <1>3, <1>4, <1>5 DEF Step, SetupStep, RotateStep

\* A command that is killed while it writes the env file has not shown its
\* mnemonic; one whose mnemonic is not the configured one has lost work.
LEMMA MnemonicKill ==
  ASSUME MnemonicInv, NEW p \in Procs, Kill(p)
  PROVE  KeysNew' /\ EnvFollows'
  <1> USE DEF MnemonicInv
  <1>1. /\ ~Holding(p)'
        /\ \A q \in Procs : q # p => pr'[q] = pr[q]
        /\ UNCHANGED <<keys, shown>>
        /\ lost => lost'
    BY Empties DEF Kill, Exit, Holding, KeyInv, TypeOK, counters
  <1>2. config'.key = config.key
    BY DEF Kill, MayTear, KeyInv, TypeOK, ConfigFile
  <1>3. \/ env' = env
        \/ pr[p].pc \in {"set_env", "rot_env"} /\ (lost' \/ config.key = pr[p].key)
    BY DEF Kill, MayTear
  <1>4. \A q \in Procs : SameKey(q)
    BY <1>1 DEF SameKey
  <1>5. CASE env' = env \/ lost'
    BY <1>1, <1>2, <1>4, <1>5, MnemonicKept
  <1>6. CASE pr[p].pc \in {"set_env", "rot_env"} /\ config.key = pr[p].key
    <2>1. Holding(p)
      BY <1>6 DEF Holding
    <2>2. KeysNew'
      BY <1>1 DEF KeysNew, Holding
    <2>3. config'.key \notin shown'
      BY <1>1, <1>2, <1>6, <2>1 DEF KeysNew
    <2>4. ASSUME NEW q \in Procs, Saved(q)' PROVE pr'[q].key # config'.key
      BY <1>1, <1>2, <1>6, <2>1, <2>4 DEF KeysNew, Holding, Saved
    <2> QED
      BY <2>2, <2>3, <2>4 DEF EnvFollows
  <1> QED
    BY <1>3, <1>5, <1>6

\* MnemonicInv is inductive.
LEMMA MnemonicNext == MnemonicInv /\ [Next]_vars => MnemonicInv'
  <1> SUFFICES ASSUME MnemonicInv, [Next]_vars PROVE KeysNew' /\ EnvFollows'
    BY KeyStep DEF MnemonicInv
  <1>1. ASSUME NEW p \in Procs, Start(p) \/ Step(p) \/ Kill(p)
        PROVE  KeysNew' /\ EnvFollows'
    BY <1>1, MnemonicStart, MnemonicStep, MnemonicKill
  <1>2. CASE \/ ServeStep \/ Stop \/ (\E k \in Keys \ {0} : Pair(k))
             \/ MakeRequest \/ MakeResponse \/ ImportResponse \/ GraceEnds
             \/ UNCHANGED vars
    <2>1. UNCHANGED <<pr, config, env, keys, shown, lost>>
      BY <1>2
         DEF ServeStep, ServeEnv, ServeConfig, ServeTokens, Stop, Pair,
             MakeRequest, MakeResponse, ImportResponse, GraceEnds, vars, files,
             counters, history
    <2>2. \A p \in Procs : SameKey(p)
      BY <2>1 DEF SameKey
    <2> QED
      BY <2>1, <2>2, MnemonicKept DEF MnemonicInv
  <1> QED
    BY <1>1, <1>2 DEF Next

\* ShownKeyInEnv: configuration and env file disagree only while the configured
\* mnemonic has been shown to nobody, wherever setup and rotate-keys are killed,
\* unless overlapping commands have overwritten each other.  Nothing is said of
\* a mnemonic shown earlier: a killed rotation leaves it refused.
THEOREM ShownMnemonicInEnv == Spec => []ShownKeyInEnv
  <1>1. Init => MnemonicInv
    <2> SUFFICES ASSUME Init PROVE MnemonicInv
      OBVIOUS
    <2>1. \A p \in Procs : ~Holding(p) /\ ~Saved(p)
      BY Empties DEF Init, Holding, Saved
    <2>2. shown = {}
      BY DEF Init
    <2> QED
      BY <2>1, <2>2, KeyInit DEF MnemonicInv, KeysNew, EnvFollows
  <1>2. MnemonicInv => ShownKeyInEnv
    BY DEF MnemonicInv, EnvFollows, EnvFits, ShownKeyInEnv
  <1> QED
    BY <1>1, <1>2, MnemonicNext, PTL DEF Spec

-----------------------------------------------------------------------------
(* The tokens that have been revoked *)

\* The commands about to save the tokens file, and the tokens among those
\* they save that they have generated themselves.
TokensOf(f) == {f.readonly, f.admin}
Saving(p) == pr[p].pc \in {"api_tokens", "reset"}
Own(p) == TokensOf(pr[p].tokens) \ TokensOf(pr[p].had)

\* Tokens are numbered as they are generated, and 0 is none.
TokensNumbered ==
    /\ \A x \in revoked \cup TokensOf(tokens) : x <= issued
    /\ \A p \in Procs : Saving(p) =>
         \A x \in TokensOf(pr[p].tokens) \cup TokensOf(pr[p].had) : x <= issued
TokensReal ==
    /\ 0 \notin revoked
    /\ tokens.st = "ok" => 0 \notin TokensOf(tokens)
    /\ \A p \in Procs : Saving(p) => 0 \notin TokensOf(pr[p].tokens)
    /\ \A p \in Procs : pr[p].pc = "reset" => 0 \notin TokensOf(pr[p].had)

\* What a command has generated is nowhere else until it is saved.
TokensNew ==
    \A p \in Procs : Saving(p) =>
      /\ Own(p) \cap (revoked \cup TokensOf(tokens)) = {}
      /\ \A q \in Procs : Saving(q) =>
           /\ Own(p) \cap TokensOf(pr[q].had) = {}
           /\ p # q => Own(p) \cap Own(q) = {}

\* The inductive form of RestartRevokes: unless work was lost, the file never
\* has a token that was declared invalid, so neither has a service that reads
\* it, whenever it was started.
RevokedGone ==
    /\ daemon.gone \subseteq revoked
    /\ ~lost => TokensOf(tokens) \cap revoked = {}
    /\ ~lost => TokensOf(daemon.tokens) \cap daemon.gone = {}
TokenFacts == TokensNumbered /\ TokensReal /\ TokensNew /\ RevokedGone
TokenInv == KeyInv /\ TokenFacts

\* A step that leaves the tokens where they are keeps TokenInv.
LEMMA TokensKept ==
  ASSUME TokenInv, UNCHANGED <<revoked, issued>>,
         TokensOf(tokens') = TokensOf(tokens),
         tokens'.st = "ok" => tokens.st = "ok",
         \A p \in Procs : pr'[p] = pr[p] \/ ~Saving(p)',
         daemon'.gone \subseteq revoked,
         lost => lost',
         ~lost' => TokensOf(daemon'.tokens) \cap daemon'.gone = {}
  PROVE  TokenFacts'
  <1> USE DEF TokenInv, TokenFacts
  <1>1. \A p \in Procs : Saving(p)' => Saving(p) /\ pr'[p] = pr[p]
    BY DEF Saving
  <1>2. \A p \in Procs : pr'[p].pc = "reset" => Saving(p)'
    BY DEF Saving
  <1>3. TokensNumbered'
    BY <1>1 DEF TokensNumbered
  <1>4. TokensReal'
    BY <1>1, <1>2 DEF TokensReal
  <1>5. TokensNew'
    BY <1>1 DEF TokensNew, Own
  <1>6. RevokedGone'
    BY DEF RevokedGone
  <1> QED
    BY <1>3, <1>4, <1>5, <1>6

\* A command that generates tokens: they are new because they are numbered
\* above all that have been issued.
LEMMA TokensIssued ==
  ASSUME TokenInv, NEW p \in Procs, NEW r \in Proc,
         pr' = [pr EXCEPT ![p] = r],
         r.pc = "api_tokens" \/ (r.pc = "reset" /\ 0 \notin TokensOf(r.had)),
         0 \notin TokensOf(r.tokens),
         TokensOf(r.had) \subseteq TokensOf(tokens) \cup {0},
         \A x \in TokensOf(r.tokens) :
            x \in TokensOf(r.had) \/ (issued < x /\ x <= issued'),
         issued <= issued', issued' \in Tokens,
         UNCHANGED <<tokens, revoked, daemon, lost>>
  PROVE  TokenFacts'
  <1> USE DEF TokenInv, TokenFacts
  <1>a. /\ pr \in [Procs -> Proc] /\ issued \in Nat /\ issued' \in Nat
        /\ pr'[p] = r /\ \A q \in Procs : q # p => pr'[q] = pr[q]
    BY DEF KeyInv, TypeOK, Tokens
  <1>b. /\ \A x \in revoked \cup TokensOf(tokens) : x \in Int /\ x <= issued
        /\ \A q \in Procs : Saving(q) =>
             \A x \in TokensOf(pr[q].tokens) \cup TokensOf(pr[q].had) :
                x \in Int /\ x <= issued
    <2>1. revoked \subseteq Int /\ TokensOf(tokens) \subseteq Int
      BY DEF KeyInv, TypeOK, TokensFile, Tokens, TokensOf
    <2>2. ASSUME NEW q \in Procs
          PROVE  /\ TokensOf(pr[q].tokens) \subseteq Int
                 /\ TokensOf(pr[q].had) \subseteq Int
      <3>1. pr[q].tokens \in TokensFile /\ pr[q].had \in TokensFile
        BY <1>a DEF Proc
      <3> QED
        BY <3>1 DEF TokensFile, Tokens, TokensOf
    <2> QED
      BY <2>1, <2>2 DEF TokensNumbered
  <1>c. /\ \A x \in TokensOf(r.had) : x \in Int /\ x <= issued
        /\ \A x \in TokensOf(r.tokens) : x \in Int /\ x <= issued'
        /\ \A x \in TokensOf(r.tokens) \ TokensOf(r.had) :
             x \in Int /\ issued < x /\ x # 0
    <2>1. r.tokens \in TokensFile
      BY DEF Proc
    <2>2. TokensOf(r.tokens) \subseteq Int
      BY <2>1 DEF TokensFile, Tokens, TokensOf
    <2> QED
      BY <2>2, <1>a, <1>b
  <1>1. TokensNumbered'
    <2>1. \A x \in revoked' \cup TokensOf(tokens') : x <= issued'
      BY <1>a, <1>b
    <2>2. ASSUME NEW q \in Procs, Saving(q)',
                 NEW x \in TokensOf(pr'[q].tokens) \cup TokensOf(pr'[q].had)
          PROVE  x <= issued'
      <3>1. CASE q = p
        BY <3>1, <2>2, <1>a, <1>c
      <3>2. CASE q # p
        <4>1. Saving(q) /\ pr'[q] = pr[q]
          BY <2>2, <3>2, <1>a DEF Saving
        <4>2. x \in Int /\ x <= issued
          BY <4>1, <1>b
        <4> QED
          BY <4>2, <1>a
      <3> QED
        BY <3>1, <3>2
    <2> QED
      BY <2>1, <2>2 DEF TokensNumbered
  <1>2. TokensReal'
    <2>1. ASSUME NEW q \in Procs
          PROVE  /\ Saving(q)' => 0 \notin TokensOf(pr'[q].tokens)
                 /\ pr'[q].pc = "reset" => 0 \notin TokensOf(pr'[q].had)
      <3>1. CASE q = p
        BY <3>1, <1>a
      <3>2. CASE q # p
        BY <3>2, <1>a DEF TokensReal, Saving
      <3> QED
        BY <3>1, <3>2
    <2> QED
      BY <2>1 DEF TokensReal
  <1>3. TokensNew'
    <2>0. Own(p)' = TokensOf(r.tokens) \ TokensOf(r.had)
      BY <1>a DEF Own
    <2>1. \A q \in Procs : q # p => Own(q)' = Own(q) /\ (Saving(q)' <=> Saving(q))
      BY <1>a DEF Own, Saving
    <2>2. \A x \in Own(p)' : x \in Int /\ issued < x /\ x # 0
      BY <2>0, <1>c
    <2>3. \A q \in Procs : Saving(q) =>
             /\ \A x \in Own(q) : x \in Int /\ x <= issued /\ x # 0
             /\ \A x \in TokensOf(pr[q].had) : x \in Int /\ x <= issued
      BY <1>b DEF Own, TokensReal
    <2>4. Own(p)' \cap (revoked' \cup TokensOf(tokens')) = {}
      BY <2>2, <1>a, <1>b
    <2>5. Own(p)' \cap TokensOf(pr'[p].had) = {}
      BY <2>0, <1>a
    <2>6. ASSUME NEW q \in Procs, q # p, Saving(q)'
          PROVE  /\ Own(q)' \cap (revoked' \cup TokensOf(tokens')) = {}
                 /\ Own(p)' \cap TokensOf(pr'[q].had) = {}
                 /\ Own(q)' \cap TokensOf(pr'[p].had) = {}
                 /\ Own(p)' \cap Own(q)' = {}
      <3>1. Saving(q) /\ Own(q)' = Own(q) /\ pr'[q] = pr[q] /\ pr'[p] = r
        BY <2>1, <2>6, <1>a
      <3>2. Own(q) \cap (revoked \cup TokensOf(tokens)) = {}
        BY <3>1 DEF TokensNew
      <3>3. Own(q) \cap TokensOf(r.had) = {}
        BY <3>1, <3>2, <2>3
      <3>4. Own(p)' \cap TokensOf(pr[q].had) = {} /\ Own(p)' \cap Own(q) = {}
        BY <3>1, <2>2, <2>3, <1>a
      <3> QED
        BY <3>1, <3>2, <3>3, <3>4
    <2>7. ASSUME NEW q \in Procs, q # p, Saving(q)', NEW s \in Procs, s # p, Saving(s)'
          PROVE  /\ Own(q)' \cap TokensOf(pr'[s].had) = {}
                 /\ q # s => Own(q)' \cap Own(s)' = {}
      BY <2>1, <2>7, <1>a DEF TokensNew
    <2> QED
      BY <2>4, <2>5, <2>6, <2>7 DEF TokensNew
  <1>4. RevokedGone'
    BY DEF RevokedGone
  <1> QED
    BY <1>1, <1>2, <1>3, <1>4

\* api-setup and api-reset generate tokens; the other commands begin without.
LEMMA TokenStart ==
  ASSUME TokenInv, NEW p \in Procs, Start(p)
  PROVE  TokenFacts'
  <1> USE DEF TokenInv
  <1>a. /\ pr \in [Procs -> Proc] /\ Idle \in Proc
        /\ tokens \in TokensFile /\ config \in ConfigFile
        /\ issued \in Nat /\ issued \in Tokens
        /\ Idle.had = NoTokens
    BY Empties DEF KeyInv, TypeOK, Tokens, Idle
  <1>1. CASE Setup(p) \/ Rotate(p)
    <2>1. /\ pr'[p].pc \in {"set_config", "rot_config"}
          /\ \A q \in Procs : q # p => pr'[q] = pr[q]
          /\ UNCHANGED <<tokens, revoked, issued, daemon, lost>>
      <3>1. CASE Setup(p)
        BY <3>1, <1>a DEF Setup, Proc, files, history
      <3>2. CASE Rotate(p)
        BY <3>2, <1>a DEF Rotate, Proc, files, history
      <3> QED
        BY <1>1, <3>1, <3>2
    <2>2. \A q \in Procs : pr'[q] = pr[q] \/ ~Saving(q)'
      BY <2>1 DEF Saving
    <2> QED
      BY <2>1, <2>2, TokensKept DEF TokenFacts, RevokedGone
  <1>2. CASE ApiSetup(p)
    <2> DEFINE new == [st |-> "ok", readonly |-> issued + 1, admin |-> issued + 2]
               r == [Idle EXCEPT !.pc = "api_tokens", !.config = config,
                                 !.tokens = new]
    <2>1. issued + 1 \in Tokens /\ issued + 2 \in Tokens
      BY <1>2, <1>a, KeyAssumption DEF ApiSetup, Tokens
    <2>2. new \in TokensFile /\ TokensOf(new) = {issued + 1, issued + 2}
      BY <2>1 DEF TokensFile, File, TokensOf
    <2>3. pr' = [pr EXCEPT ![p] = r] /\ issued' = issued + 2
      BY <1>2 DEF ApiSetup
    <2> HIDE DEF new
    <2>4. /\ r \in Proc /\ r.pc = "api_tokens" /\ r.tokens = new
          /\ r.had = NoTokens
      BY <1>a, <2>2 DEF Proc
    <2>5. TokensOf(r.had) = {0}
      BY <2>4 DEF NoTokens, TokensOf
    <2> HIDE DEF r
    <2>6. /\ 0 \notin TokensOf(r.tokens)
          /\ \A x \in TokensOf(r.tokens) : issued < x /\ x <= issued'
          /\ issued <= issued' /\ issued' \in Tokens
      BY <1>a, <2>1, <2>2, <2>3, <2>4
    <2>7. UNCHANGED <<tokens, revoked, daemon, lost>>
      BY <1>2 DEF ApiSetup, files, history
    <2> QED
      BY <2>3, <2>4, <2>5, <2>6, <2>7, TokensIssued
  <1>3. ASSUME NEW kind \in {"readonly", "admin"}, ApiReset(p, kind)
        PROVE  TokenFacts'
    <2> DEFINE new == [tokens EXCEPT ![kind] = issued + 1]
               r == [Idle EXCEPT !.pc = "reset", !.had = tokens,
                                 !.tokens = new]
    <2>1. issued + 1 \in Tokens
      BY <1>3, <1>a, KeyAssumption DEF ApiReset, Tokens
    <2>2. /\ new \in TokensFile
          /\ TokensOf(new) \subseteq TokensOf(tokens) \cup {issued + 1}
      BY <1>a, <2>1 DEF TokensFile, TokensOf
    <2>3. pr' = [pr EXCEPT ![p] = r] /\ issued' = issued + 1
      BY <1>3 DEF ApiReset
    <2> HIDE DEF new
    <2>4. /\ r \in Proc /\ r.pc = "reset" /\ r.tokens = new /\ r.had = tokens
      BY <1>a, <2>2 DEF Proc
    <2> HIDE DEF r
    <2>5. 0 \notin TokensOf(tokens)
      BY <1>3 DEF ApiReset, TokenFacts, TokensReal
    <2>6. /\ 0 \notin TokensOf(r.tokens)
          /\ \A x \in TokensOf(r.tokens) :
               x \in TokensOf(r.had) \/ (issued < x /\ x <= issued')
          /\ issued <= issued' /\ issued' \in Tokens
      BY <1>a, <2>1, <2>2, <2>3, <2>4, <2>5
    <2>7. UNCHANGED <<tokens, revoked, daemon, lost>>
      BY <1>3 DEF ApiReset, files, history
    <2> QED
      BY <2>3, <2>4, <2>5, <2>6, <2>7, TokensIssued
  <1> QED
    BY <1>1, <1>2, <1>3 DEF Start

\* A command saves the tokens it has loaded and generated; api-reset declares
\* those it has loaded and not saved invalid.
LEMMA TokensSaved ==
  ASSUME TokenInv, NEW p \in Procs, Saving(p), SaveTokens(p), ~Saving(p)',
         \A q \in Procs : q # p => pr'[q] = pr[q],
         \/ revoked' = revoked
         \/ /\ pr[p].pc = "reset"
            /\ revoked' = revoked \cup
                 {x \in TokensOf(pr[p].had) : x \notin TokensOf(pr[p].tokens)},
         UNCHANGED <<issued, daemon>>
  PROVE  TokenFacts'
  <1> USE DEF TokenInv, TokenFacts
  <1>0. tokens' = pr[p].tokens /\ (lost => lost') /\ (~lost' => tokens = pr[p].had)
    BY DEF SaveTokens
  <1>1. \A q \in Procs : Saving(q)' =>
           q # p /\ Saving(q) /\ pr'[q] = pr[q] /\ Own(q)' = Own(q)
    BY DEF Saving, Own
  <1>2. revoked' \subseteq revoked \cup TokensOf(pr[p].had)
    OBVIOUS
  <1>3. TokensOf(tokens') \subseteq Own(p) \cup TokensOf(pr[p].had)
    BY <1>0 DEF Own
  <1>4. TokensNumbered'
    BY <1>0, <1>1, <1>2 DEF TokensNumbered
  <1>5. TokensReal'
    <2>1. 0 \notin revoked' /\ 0 \notin TokensOf(tokens')
      BY <1>0 DEF TokensReal
    <2>2. \A q \in Procs : pr'[q].pc = "reset" => Saving(q)'
      BY DEF Saving
    <2> QED
      BY <1>1, <2>1, <2>2 DEF TokensReal
  <1>6. TokensNew'
    <2>1. ASSUME NEW q \in Procs, Saving(q)'
          PROVE  Own(q)' \cap (revoked' \cup TokensOf(tokens')) = {}
      <3>1. /\ Own(q) \cap (revoked \cup TokensOf(tokens)) = {}
            /\ Own(q) \cap TokensOf(pr[p].had) = {}
            /\ Own(q) \cap Own(p) = {}
        BY <1>1, <2>1 DEF TokensNew
      <3> QED
        BY <3>1, <1>1, <1>2, <1>3, <2>1
    <2>2. ASSUME NEW q \in Procs, Saving(q)', NEW s \in Procs, Saving(s)'
          PROVE  /\ Own(q)' \cap TokensOf(pr'[s].had) = {}
                 /\ q # s => Own(q)' \cap Own(s)' = {}
      BY <1>1, <2>2 DEF TokensNew
    <2> QED
      BY <2>1, <2>2 DEF TokensNew
  <1>7. RevokedGone'
    <2>1. daemon'.gone \subseteq revoked'
      BY DEF RevokedGone
    <2>2. ASSUME ~lost' PROVE TokensOf(tokens') \cap revoked' = {}
      <3>1. ~lost /\ tokens = pr[p].had
        BY <1>0, <2>2
      <3>2. TokensOf(pr[p].had) \cap revoked = {} /\ Own(p) \cap revoked = {}
        BY <3>1 DEF RevokedGone, TokensNew
      <3>3. TokensOf(tokens') \cap revoked = {}
        BY <3>2, <1>3
      <3> QED
        BY <3>3, <1>0
    <2>3. ~lost' => TokensOf(daemon'.tokens) \cap daemon'.gone = {}
      BY <1>0 DEF RevokedGone
    <2> QED
      BY <2>1, <2>2, <2>3 DEF RevokedGone
  <1> QED
    BY <1>4, <1>5, <1>6, <1>7

\* A service that is being started has no tokens yet.
LEMMA LaunchTokens ==
  ASSUME TokenInv, Launch
  PROVE  /\ daemon'.gone \subseteq revoked
         /\ TokensOf(daemon'.tokens) \cap daemon'.gone = {}
  <1>1. daemon'.gone = revoked /\ daemon'.tokens = NoTokens
    BY DEF Launch, Off
  <1>2. TokensOf(NoTokens) = {0} /\ 0 \notin revoked
    BY DEF TokensOf, NoTokens, TokenInv, TokenFacts, TokensReal
  <1> QED
    BY <1>1, <1>2

\* The steps of a command.
LEMMA TokenStep ==
  ASSUME TokenInv, NEW p \in Procs, Step(p)
  PROVE  TokenFacts'
  <1> USE DEF At, Goto, Exit
  <1>a. /\ pr \in [Procs -> Proc] /\ pr[p] \in Proc
        /\ Idle \in Proc /\ Idle.pc = "idle"
    BY Empties DEF TokenInv, KeyInv, TypeOK
  <1>b. /\ daemon.gone \subseteq revoked
        /\ ~lost => TokensOf(daemon.tokens) \cap daemon.gone = {}
    BY DEF TokenInv, TokenFacts, RevokedGone
  <1>1. CASE ApiTokens(p)
    <2>1. /\ Saving(p) /\ SaveTokens(p) /\ ~Saving(p)'
          /\ \A q \in Procs : q # p => pr'[q] = pr[q]
          /\ UNCHANGED <<revoked, issued, daemon>>
      BY <1>1, <1>a DEF ApiTokens, Saving, Proc, counters
    <2> QED
      BY <2>1, TokensSaved
  <1>2. CASE ResetSave(p)
    <2>1. /\ Saving(p) /\ SaveTokens(p) /\ ~Saving(p)'
          /\ \A q \in Procs : q # p => pr'[q] = pr[q]
          /\ UNCHANGED <<issued, daemon>>
      BY <1>2, <1>a DEF ResetSave, Saving, counters
    <2>2. /\ pr[p].pc = "reset"
          /\ revoked' = revoked \cup
               {x \in TokensOf(pr[p].had) : x \notin TokensOf(pr[p].tokens)}
      BY <1>2 DEF ResetSave, TokensOf
    <2> QED
      BY <2>1, <2>2, TokensSaved
  <1>3. CASE SetupStart(p)
    <2>1. /\ ~Saving(p)'
          /\ \A q \in Procs : q # p => pr'[q] = pr[q]
          /\ UNCHANGED <<tokens, revoked, issued, lost>>
      BY <1>3, <1>a DEF SetupStart, Saving, Proc, files, counters, history
    <2>2. /\ daemon'.gone \subseteq revoked
          /\ ~lost => TokensOf(daemon'.tokens) \cap daemon'.gone = {}
      <3>1. UNCHANGED daemon \/ Launch
        BY <1>3 DEF SetupStart
      <3> QED
        BY <3>1, <1>b, LaunchTokens
    <2> QED
      BY <2>1, <2>2, TokensKept
  <1>4. CASE \/ SetupConfig(p) \/ SetupMaterial(p) \/ SetupEnv(p)
             \/ RotateConfig(p) \/ RotateEnv(p) \/ ApiCert(p) \/ ApiKey(p)
             \/ ApiConfig(p) \/ Show(p)
    <2>1. /\ ~Saving(p)'
          /\ \A q \in Procs : q # p => pr'[q] = pr[q]
          /\ UNCHANGED <<tokens, revoked, issued, daemon>>
          /\ lost => lost'
      <3>1. CASE SetupConfig(p)
        BY <3>1, <1>a DEF SetupConfig, SaveConfig, Saving, Proc, counters
      <3>2. CASE SetupMaterial(p)
        BY <3>2, <1>a DEF SetupMaterial, Saving, Proc, files, counters, history
      <3>3. CASE SetupEnv(p)
        BY <3>3, <1>a DEF SetupEnv, SaveEnv, Saving, Proc, counters
      <3>4. CASE RotateConfig(p)
        BY <3>4, <1>a DEF RotateConfig, SaveConfig, Saving, Proc, counters
      <3>5. CASE RotateEnv(p)
        BY <3>5, <1>a DEF RotateEnv, SaveEnv, Saving, Proc, counters
      <3>6. CASE ApiCert(p)
        BY <3>6, <1>a DEF ApiCert, Saving, Proc, counters, history
      <3>7. CASE ApiKey(p)
        BY <3>7, <1>a DEF ApiKey, Saving, Proc, counters, history
      <3>8. CASE ApiConfig(p)
        BY <3>8, <1>a DEF ApiConfig, SaveConfig, Saving, counters
      <3>9. CASE Show(p)
        BY <3>9, <1>a DEF Show, Saving, files, counters
      <3> QED
        BY <1>4, <3>1, <3>2, <3>3, <3>4, <3>5, <3>6, <3>7, <3>8, <3>9
    <2> QED
      BY <2>1, <1>b, TokensKept
  <1> QED
    BY <1>1, <1>2, <1>3, <1>4
       DEF Step, SetupStep, RotateStep, ApiStep

\* A killed command may leave a torn tokens file; it revokes nothing.
LEMMA TokenKill ==
  ASSUME TokenInv, NEW p \in Procs, Kill(p)
  PROVE  TokenFacts'
  <1>1. /\ pr'[p].pc = "idle"
        /\ \A q \in Procs : q # p => pr'[q] = pr[q]
        /\ UNCHANGED <<revoked, issued, daemon>>
        /\ lost => lost'
    BY Empties DEF Kill, Exit, TokenInv, KeyInv, TypeOK, counters
  <1>2. tokens' = tokens \/ tokens' = [tokens EXCEPT !.st = "torn"]
    BY DEF Kill, MayTear
  <1>3. /\ TokensOf(tokens') = TokensOf(tokens)
        /\ tokens'.st = "ok" => tokens.st = "ok"
    BY <1>2 DEF TokenInv, KeyInv, TypeOK, TokensFile, TokensOf
  <1>4. \A q \in Procs : pr'[q] = pr[q] \/ ~Saving(q)'
    BY <1>1 DEF Saving
  <1> QED
    BY <1>1, <1>3, <1>4, TokensKept DEF TokenInv, TokenFacts, RevokedGone

\* The service reads the tokens after it was started: those that were invalid
\* then are no longer in the file.
LEMMA TokenServe ==
  ASSUME TokenInv, ServeStep \/ Stop
  PROVE  TokenFacts'
  <1>1. UNCHANGED <<pr, tokens, revoked, issued, lost>>
    BY DEF ServeStep, ServeEnv, ServeConfig, ServeTokens, Stop, files,
           counters, history
  <1>a. daemon \in Daemon
    BY DEF TokenInv, KeyInv, TypeOK
  <1>b. /\ daemon.gone \subseteq revoked
        /\ ~lost => TokensOf(tokens) \cap revoked = {}
        /\ ~lost => TokensOf(daemon.tokens) \cap daemon.gone = {}
    BY DEF TokenInv, TokenFacts, RevokedGone
  <1>2. /\ daemon'.gone \subseteq revoked
        /\ ~lost => TokensOf(daemon'.tokens) \cap daemon'.gone = {}
    <2>1. CASE ServeEnv
      BY <2>1, LaunchTokens DEF ServeEnv
    <2>2. CASE daemon' = Off
      BY <2>2 DEF Off
    <2>3. CASE daemon' = [daemon EXCEPT !.st = "config", !.api = config.api]
      BY <2>3, <1>a, <1>b DEF Daemon
    <2>4. CASE daemon' = [daemon EXCEPT !.st = "on"]
      BY <2>4, <1>a, <1>b DEF Daemon
    <2>5. CASE daemon' = [daemon EXCEPT !.st = "on", !.tokens = tokens]
      <3>1. daemon'.gone = daemon.gone /\ daemon'.tokens = tokens
        BY <2>5, <1>a DEF Daemon
      <3> QED
        BY <3>1, <1>b
    <2>6. \/ ServeEnv
          \/ daemon' = Off
          \/ daemon' = [daemon EXCEPT !.st = "config", !.api = config.api]
          \/ daemon' = [daemon EXCEPT !.st = "on"]
          \/ daemon' = [daemon EXCEPT !.st = "on", !.tokens = tokens]
      BY Zenon DEF ServeStep, ServeConfig, ServeTokens, Stop,
                   NotReadable
    <2> QED
      BY <2>1, <2>2, <2>3, <2>4, <2>5, <2>6
  <1> QED
    BY <1>1, <1>2, TokensKept

\* TokenInv is inductive.
LEMMA TokenNext == TokenInv /\ [Next]_vars => TokenInv'
  <1> SUFFICES ASSUME TokenInv, [Next]_vars PROVE TokenFacts'
    BY KeyStep DEF TokenInv
  <1>1. ASSUME NEW p \in Procs, Start(p) \/ Step(p) \/ Kill(p)
        PROVE  TokenFacts'
    BY <1>1, TokenStart, TokenStep, TokenKill
  <1>2. CASE ServeStep \/ Stop
    BY <1>2, TokenServe
  <1>3. CASE \/ (\E k \in Keys \ {0} : Pair(k))
             \/ MakeRequest \/ MakeResponse \/ ImportResponse \/ GraceEnds
             \/ UNCHANGED vars
    <2>1. UNCHANGED <<pr, tokens, revoked, issued, daemon, lost>>
      BY <1>3
         DEF Pair, MakeRequest, MakeResponse, ImportResponse, GraceEnds, vars,
             files, counters, history
    <2> QED
      BY <2>1, TokensKept DEF TokenInv, TokenFacts, RevokedGone
  <1> QED
    BY <1>1, <1>2, <1>3 DEF Next

\* A service started after api-reset has declared a token invalid never
\* accepts it, however commands were killed in between, unless overlapping
\* commands have overwritten each other's tokens.
THEOREM RevocationHolds == Spec => []RestartRevokes
  <1>1. Init => TokenInv
    <2> SUFFICES ASSUME Init PROVE TokenInv
      OBVIOUS
    <2>1. \A p \in Procs : ~Saving(p) /\ pr[p].pc # "reset"
      BY Empties DEF Init, Saving
    <2>2. TokensOf(tokens) = {0} /\ tokens.st # "ok" /\ revoked = {} /\ issued = 0
      BY DEF Init, TokensOf, NoTokens
    <2>3. daemon.gone = {}
      BY DEF Init, Off
    <2> QED
      BY <2>1, <2>2, <2>3, KeyInit
         DEF TokenInv, TokenFacts, TokensNumbered, TokensReal, TokensNew,
             RevokedGone
  <1>2. TokenInv => RestartRevokes
    BY DEF TokenInv, TokenFacts, RevokedGone, RestartRevokes, TokensOf
  <1> QED
    BY <1>1, <1>2, TokenNext, PTL DEF Spec
=============================================================================
