---------------------------- MODULE KeyLifecycle ----------------------------
(***************************************************************************)
(* The secrets of a buncker installation: the commands that write them     *)
(* (setup, rotate-keys, api-setup and api-reset of                         *)
(* src/buncker/__main__.py), the daemon that reads them when it starts     *)
(* (_cmd_serve), and the transfers that are encrypted with them.           *)
(*                                                                         *)
(* Every command is a process that reads some files at its start and then  *)
(* writes one file after the other; nothing is locked, so commands may     *)
(* overlap, and one may be killed between two writes or within one.        *)
(* Path.write_text truncates the file first: a killed write leaves a torn  *)
(* file, which no reader accepts.  (A reader that meets a half-written     *)
(* file refuses it too: that is a reader which has not been started yet.)  *)
(*                                                                         *)
(* Abstractions: mnemonics and tokens are numbered as they are generated,  *)
(* 0 is none; a key is its mnemonic; api stands for api.enabled, tls and   *)
(* bind = 0.0.0.0, which api-setup sets together.  The encryption of the   *)
(* env file and the key-material it is bound to are left out.  Commands    *)
(* write key-material, api-tokens.json and server-key.pem with mode 0600;  *)
(* the service runs as a user of its own (buncker.service) and need not be *)
(* able to read them, so it may exit wherever it reads one of them.        *)
(***************************************************************************)
EXTENDS Integers

CONSTANTS
    Procs,      \* command lines on which the operators run commands
    MaxKeys,    \* bound: mnemonics generated
    MaxTokens,  \* bound: API tokens generated
    Faults      \* what goes wrong

AllFaults == {"kill", "key_material", "no_cert", "no_systemctl", "unreadable"}
ASSUME KeyAssumption ==
    /\ MaxKeys \in Nat
    /\ MaxTokens \in Nat
    /\ Faults \subseteq AllFaults

VARIABLES
    config,     \* /etc/buncker/config.json: crypto, crypto.previous, api
    env,        \* /etc/buncker/env, which systemd reads
    tokens,     \* /etc/buncker/api-tokens.json
    tls,        \* tls/server.pem and tls/server-key.pem: which pair they are of
    pr,         \* the commands that run
    daemon,     \* the service
    keys,       \* mnemonics generated so far
    issued,     \* tokens generated so far
    paired,     \* the mnemonic the online machine is paired with
    usb,        \* the transfer file under way
    shown,      \* history: mnemonics that have been displayed
    revoked,    \* history: tokens declared invalid by api-reset
    over,       \* history: the grace period of the last rotation is over
    refused,    \* history: keys of refused responses within their grace period
    lost        \* history: a command has overwritten what another one wrote

files    == <<config, env, tokens, tls>>
counters == <<keys, issued>>
transfer == <<paired, usb, over, refused>>
history  == <<shown, revoked, lost>>
vars == <<config, env, tokens, tls, pr, daemon, keys, issued, paired, usb,
          shown, revoked, over, refused, lost>>

-----------------------------------------------------------------------------
Keys == 0 .. MaxKeys
Tokens == 0 .. MaxTokens
File == {"absent", "torn", "ok"}

ConfigFile == [st : File, key : Keys, prev : Keys, api : BOOLEAN]
EnvFile == [st : File, key : Keys]
TokensFile == [st : File, readonly : Tokens, admin : Tokens]
NoConfig == [st |-> "absent", key |-> 0, prev |-> 0, api |-> FALSE]
NoEnv == [st |-> "absent", key |-> 0]
NoTokens == [st |-> "absent", readonly |-> 0, admin |-> 0]

\* A command's locals: the configuration or the tokens it has loaded, the
\* mnemonic it has generated, the tokens it is going to save, and whether the
\* name contextlib is bound (setup).
Proc == [pc     : {"idle", "set_config", "set_material", "set_env",
                   "set_start", "set_show", "rot_config", "rot_env",
                   "rot_show", "api_tokens", "api_cert", "api_key",
                   "api_config", "reset"},
         config : ConfigFile,
         key    : Keys,
         had    : TokensFile,
         tokens : TokensFile,
         bound  : BOOLEAN]
Idle == [pc |-> "idle", config |-> NoConfig, key |-> 0, had |-> NoTokens,
         tokens |-> NoTokens, bound |-> TRUE]

\* The service: off, its environment read, its configuration read, serving.
\* gone (history): the tokens that were invalid when it was started.
Daemon == [st : {"off", "env", "config", "on"}, key : Keys, api : BOOLEAN,
           tokens : TokensFile, gone : SUBSET Tokens]
Off == [st |-> "off", key |-> 0, api |-> FALSE, tokens |-> NoTokens,
        gone |-> {}]

TypeOK ==
    /\ config \in ConfigFile
    /\ env \in EnvFile
    /\ tokens \in TokensFile
    /\ tls \in [cert : Tokens, key : Tokens]
    /\ pr \in [Procs -> Proc]
    /\ daemon \in Daemon
    /\ keys \in Keys
    /\ issued \in Tokens
    /\ paired \in Keys
    /\ usb \in [st : {"none", "request", "response"}, key : Keys]
    /\ shown \subseteq Keys
    /\ revoked \subseteq Tokens
    /\ over \in BOOLEAN
    /\ refused \subseteq Keys
    /\ lost \in BOOLEAN

\* Nothing has been set up.
Init ==
    /\ config = NoConfig
    /\ env = NoEnv
    /\ tokens = NoTokens
    /\ tls = [cert |-> 0, key |-> 0]
    /\ pr = [p \in Procs |-> Idle]
    /\ daemon = Off
    /\ keys = 0
    /\ issued = 0
    /\ paired = 0
    /\ usb = [st |-> "none", key |-> 0]
    /\ shown = {}
    /\ revoked = {}
    /\ over = FALSE
    /\ refused = {}
    /\ lost = FALSE

-----------------------------------------------------------------------------
At(p, l) == pr[p].pc = l
Goto(p, l) == pr' = [pr EXCEPT ![p].pc = l]
Exit(p) == pr' = [pr EXCEPT ![p] = Idle]

\* config.save_config of a command that has loaded what the file held then.
SaveConfig(p, new) ==
    /\ config' = new
    /\ lost' = (lost \/ config # pr[p].config)

\* The env file gets the mnemonic of a command.  It is lost work if another
\* command has put a new hash into the configuration by now.
SaveEnv(p) ==
    /\ env' = [st |-> "ok", key |-> pr[p].key]
    /\ lost' = (lost \/ config.key # pr[p].key)

SaveTokens(p) ==
    /\ tokens' = pr[p].tokens
    /\ lost' = (lost \/ tokens # pr[p].had)

\* systemd starts buncker serve with the environment of the env file.
Launch ==
    /\ daemon.st = "off"
    /\ daemon' = [Off EXCEPT !.st = "env", !.gone = revoked,
                             !.key = IF env.st = "ok" THEN env.key ELSE 0]

-----------------------------------------------------------------------------
(* buncker setup *)

\* Refused if there is a configuration; a mnemonic is generated.
Setup(p) ==
    /\ At(p, "idle")
    /\ config.st = "absent"
    /\ keys < MaxKeys
    /\ keys' = keys + 1
    /\ pr' = [pr EXCEPT ![p] = [Idle EXCEPT !.pc = "set_config",
                                            !.key = keys + 1]]
    /\ UNCHANGED <<files, daemon, issued, transfer, history>>

SetupConfig(p) ==
    /\ At(p, "set_config")
    /\ SaveConfig(p, [st |-> "ok", key |-> pr[p].key, prev |-> 0,
                      api |-> FALSE])
    /\ Goto(p, "set_material")
    /\ UNCHANGED <<env, tokens, tls, daemon, counters, transfer, shown,
                   revoked>>

\* The key-material file.  An OSError is passed over, but contextlib is
\* imported in the same try block, after the write.
SetupMaterial(p) ==
    /\ At(p, "set_material")
    /\ \E written \in BOOLEAN :
         /\ ~written => "key_material" \in Faults
         /\ pr' = [pr EXCEPT ![p].pc = "set_env", ![p].bound = written]
    /\ UNCHANGED <<files, daemon, counters, transfer, history>>

\* The env file; then contextlib is used, which may be an UnboundLocalError.
SetupEnv(p) ==
    /\ At(p, "set_env")
    /\ SaveEnv(p)
    /\ IF pr[p].bound THEN Goto(p, "set_start") ELSE Exit(p)
    /\ UNCHANGED <<config, tokens, tls, daemon, counters, transfer, shown,
                   revoked>>

\* systemctl enable --now buncker, whose failure is a warning.
SetupStart(p) ==
    /\ At(p, "set_start")
    /\ \/ /\ "no_systemctl" \in Faults \/ daemon.st # "off"
          /\ UNCHANGED daemon
       \/ Launch
    /\ Goto(p, "set_show")
    /\ UNCHANGED <<files, counters, transfer, history>>

\* The mnemonic is displayed, the only time.
Show(p) ==
    /\ At(p, "set_show") \/ At(p, "rot_show")
    /\ shown' = shown \cup {pr[p].key}
    /\ Exit(p)
    /\ UNCHANGED <<files, daemon, counters, transfer, revoked, lost>>

-----------------------------------------------------------------------------
(* buncker rotate-keys *)

\* load_config refuses a torn file; without a file it returns defaults.
Rotate(p) ==
    /\ At(p, "idle")
    /\ config.st # "torn"
    /\ keys < MaxKeys
    /\ keys' = keys + 1
    /\ pr' = [pr EXCEPT ![p] = [Idle EXCEPT !.pc = "rot_config",
                                            !.config = config,
                                            !.key = keys + 1]]
    /\ UNCHANGED <<files, daemon, issued, transfer, history>>

RotateConfig(p) ==
    /\ At(p, "rot_config")
    /\ SaveConfig(p, [st |-> "ok", key |-> pr[p].key,
                      prev |-> pr[p].config.key, api |-> pr[p].config.api])
    /\ over' = FALSE
    /\ Goto(p, "rot_env")
    /\ UNCHANGED <<env, tokens, tls, daemon, counters, paired, usb, refused,
                   shown, revoked>>

\* Mutant: a failure to write the env file is passed over.
RotateEnv_Suppressed(p) ==
    /\ At(p, "rot_env")
    /\ SaveEnv(p) \/ UNCHANGED <<env, lost>>
    /\ Goto(p, "rot_show")
    /\ UNCHANGED <<config, tokens, tls, daemon, counters, transfer, shown,
                   revoked>>

RotateEnv(p) ==
    /\ At(p, "rot_env")
    /\ SaveEnv(p)
    /\ Goto(p, "rot_show")
    /\ UNCHANGED <<config, tokens, tls, daemon, counters, transfer, shown,
                   revoked>>

-----------------------------------------------------------------------------
(* buncker api-setup *)

\* Refused without a configuration and if there are tokens.
ApiSetup(p) ==
    /\ At(p, "idle")
    /\ config.st = "ok"
    /\ tokens.st = "absent"
    /\ issued + 2 <= MaxTokens
    /\ issued' = issued + 2
    /\ pr' = [pr EXCEPT ![p] = [Idle EXCEPT
                !.pc = "api_tokens",
                !.config = config,
                !.tokens = [st |-> "ok", readonly |-> issued + 1,
                            admin |-> issued + 2]]]
    /\ UNCHANGED <<files, daemon, keys, transfer, history>>

\* Mutant: the tokens are only displayed.
ApiTokens_Unsaved(p) ==
    /\ At(p, "api_tokens")
    /\ Goto(p, "api_cert")
    /\ UNCHANGED <<files, daemon, counters, transfer, history>>

ApiTokens(p) ==
    /\ At(p, "api_tokens")
    /\ SaveTokens(p)
    /\ Goto(p, "api_cert")
    /\ UNCHANGED <<config, env, tls, daemon, counters, transfer, shown,
                   revoked>>

\* The certificate, generated or copied.  Without the file the operator named
\* the command exits; the tokens stay.
ApiCert(p) ==
    /\ At(p, "api_cert")
    /\ \/ /\ tls' = [tls EXCEPT !.cert = pr[p].tokens.admin]
          /\ Goto(p, "api_key")
       \/ /\ "no_cert" \in Faults
          /\ Exit(p)
          /\ UNCHANGED tls
    /\ UNCHANGED <<config, env, tokens, daemon, counters, transfer, history>>

ApiKey(p) ==
    /\ At(p, "api_key")
    /\ tls' = [tls EXCEPT !.key = pr[p].tokens.admin]
    /\ Goto(p, "api_config")
    /\ UNCHANGED <<config, env, tokens, daemon, counters, transfer, history>>

ApiConfig(p) ==
    /\ At(p, "api_config")
    /\ SaveConfig(p, [pr[p].config EXCEPT !.api = TRUE])
    /\ Exit(p)
    /\ UNCHANGED <<env, tokens, tls, daemon, counters, transfer, shown,
                   revoked>>

-----------------------------------------------------------------------------
(* buncker api-reset *)

\* Mutant: the new token is stored under another name.
ApiReset_OtherName(p, kind) ==
    /\ At(p, "idle")
    /\ tokens.st = "ok"
    /\ issued < MaxTokens
    /\ issued' = issued + 1
    /\ pr' = [pr EXCEPT ![p] = [Idle EXCEPT
                !.pc = "reset",
                !.had = tokens,
                !.tokens = [st |-> "ok", readonly |-> tokens.readonly,
                            admin |-> tokens.admin, token |-> issued + 1]]]
    /\ UNCHANGED <<files, daemon, keys, transfer, history>>

\* The tokens are loaded and the one of this kind is generated anew.
ApiReset(p, kind) ==
    /\ At(p, "idle")
    /\ tokens.st = "ok"
    /\ issued < MaxTokens
    /\ issued' = issued + 1
    /\ pr' = [pr EXCEPT ![p] = [Idle EXCEPT
                !.pc = "reset",
                !.had = tokens,
                !.tokens = [tokens EXCEPT ![kind] = issued + 1]]]
    /\ UNCHANGED <<files, daemon, keys, transfer, history>>

\* Mutant: what was loaded is saved.
ResetSave_Loaded(p) ==
    /\ At(p, "reset")
    /\ tokens' = pr[p].had
    /\ revoked' = revoked \cup {t \in {pr[p].had.readonly, pr[p].had.admin} :
                     t \notin {pr[p].tokens.readonly, pr[p].tokens.admin}}
    /\ Exit(p)
    /\ UNCHANGED <<config, env, tls, daemon, counters, transfer, shown, lost>>

\* save_api_tokens, and the old token is declared invalid.
ResetSave(p) ==
    /\ At(p, "reset")
    /\ SaveTokens(p)
    /\ revoked' = revoked \cup {t \in {pr[p].had.readonly, pr[p].had.admin} :
                     t \notin {pr[p].tokens.readonly, pr[p].tokens.admin}}
    /\ Exit(p)
    /\ UNCHANGED <<config, env, tls, daemon, counters, transfer, shown>>

-----------------------------------------------------------------------------
(* A command is killed *)

\* The file being written is left as it was or torn.
MayTear(file, writing) ==
    {file} \cup IF writing THEN {[file EXCEPT !.st = "torn"]} ELSE {}
Kill(p) ==
    /\ "kill" \in Faults
    /\ ~At(p, "idle")
    /\ config' \in MayTear(config,
                     pr[p].pc \in {"set_config", "rot_config", "api_config"})
    /\ env' \in MayTear(env, pr[p].pc \in {"set_env", "rot_env"})
    /\ tokens' \in MayTear(tokens, pr[p].pc \in {"api_tokens", "reset"})
    /\ lost' = (lost \/ (env' # env /\ config.key # pr[p].key))
    /\ Exit(p)
    /\ UNCHANGED <<tls, daemon, counters, transfer, shown, revoked>>

-----------------------------------------------------------------------------
(* The service *)

\* systemd, after a failure, or the operator starts the service.
ServeEnv ==
    /\ Launch
    /\ UNCHANGED <<files, pr, counters, transfer, history>>

\* The service exits where it may not read a file.
NotReadable == "unreadable" \in Faults /\ daemon' = Off

\* load_config, the mnemonic is decrypted with key-material and compared with
\* the hash in the configuration, if there is one.  Without a mnemonic the
\* service exits.
ServeConfig ==
    /\ daemon.st = "env"
    /\ \/ NotReadable
       \/ daemon' = IF /\ config.st # "torn"
                       /\ daemon.key # 0
                       /\ config.key \in {0, daemon.key}
                      THEN [daemon EXCEPT !.st = "config", !.api = config.api]
                      ELSE Off
    /\ UNCHANGED <<files, pr, counters, transfer, history>>

\* load_api_tokens, which returns None if there is no file, and load_cert_chain.
ServeTokens ==
    /\ daemon.st = "config"
    /\ \/ daemon.api /\ NotReadable
       \/ daemon' = IF ~daemon.api
                      THEN [daemon EXCEPT !.st = "on"]
                      ELSE IF tokens.st # "torn" /\ tls.cert # 0 /\ tls.cert = tls.key
                      THEN [daemon EXCEPT !.st = "on", !.tokens = tokens]
                      ELSE Off
    /\ UNCHANGED <<files, pr, counters, transfer, history>>

ServeStep == ServeEnv \/ ServeConfig \/ ServeTokens

\* The operator restarts the service, or it dies.
Stop ==
    /\ daemon.st = "on"
    /\ daemon' = Off
    /\ UNCHANGED <<files, pr, counters, transfer, history>>

-----------------------------------------------------------------------------
(* Transfers *)

\* buncker-fetch pair, with a mnemonic the operator has been shown.
Pair(k) ==
    /\ k \in shown
    /\ paired' = k
    /\ UNCHANGED <<files, pr, daemon, counters, usb, over, refused, history>>

\* generate-manifest encrypts with the key of the running service.
MakeRequest ==
    /\ daemon.st = "on"
    /\ usb' = [st |-> "request", key |-> daemon.key]
    /\ UNCHANGED <<files, pr, daemon, counters, paired, over, refused, history>>

\* buncker-fetch fetch: the mnemonic has to match the pairing and the request.
MakeResponse ==
    /\ usb.st = "request"
    /\ usb.key = paired
    /\ usb' = [usb EXCEPT !.st = "response"]
    /\ UNCHANGED <<files, pr, daemon, counters, paired, over, refused, history>>

\* /admin/import decrypts with the key of the running service.
ImportResponse ==
    /\ usb.st = "response"
    /\ daemon.st = "on"
    /\ IF usb.key = daemon.key
         THEN usb' = [st |-> "none", key |-> 0] /\ UNCHANGED refused
         ELSE /\ refused' = refused \cup
                   (IF usb.key = config.prev /\ ~over THEN {usb.key} ELSE {})
              /\ UNCHANGED usb
    /\ UNCHANGED <<files, pr, daemon, counters, paired, over, history>>

\* grace_period_days have passed since deprecated_at.
GraceEnds ==
    /\ ~over
    /\ over' = TRUE
    /\ UNCHANGED <<files, pr, daemon, counters, paired, usb, refused, history>>

-----------------------------------------------------------------------------
SetupStep(p) ==
    \/ SetupConfig(p)
    \/ SetupMaterial(p)
    \/ SetupEnv(p)
    \/ SetupStart(p)
RotateStep(p) == RotateConfig(p) \/ RotateEnv(p)
ApiStep(p) == ApiTokens(p) \/ ApiCert(p) \/ ApiKey(p) \/ ApiConfig(p)
Step(p) ==
    SetupStep(p) \/ RotateStep(p) \/ ApiStep(p) \/ ResetSave(p) \/ Show(p)

Start(p) ==
    \/ Setup(p)
    \/ Rotate(p)
    \/ ApiSetup(p)
    \/ \E kind \in {"readonly", "admin"} : ApiReset(p, kind)

Next ==
    \/ \E p \in Procs : Start(p) \/ Step(p) \/ Kill(p)
    \/ ServeStep
    \/ Stop
    \/ \E k \in Keys \ {0} : Pair(k)
    \/ MakeRequest
    \/ MakeResponse
    \/ ImportResponse
    \/ GraceEnds

Spec == Init /\ [][Next]_vars

-----------------------------------------------------------------------------
(* Properties *)

\* A service that listens on all interfaces has tokens to compare with, and
\* never falls back to "no tokens, all endpoints open": api-setup saves the
\* tokens before it changes the configuration, wherever it is killed.
ExposedOnlyWithTokens ==
    daemon.st = "on" /\ daemon.api => daemon.tokens.st = "ok"

\* If the mnemonic whose hash is in the configuration has been displayed, it is
\* the one in the env file: the two part only while the configured mnemonic is
\* one that nobody has seen, as after a rotation killed between its two writes
\* (when the service refuses the mnemonic that was displayed before), or after
\* overlapping commands have overwritten each other's files.
ShownKeyInEnv ==
    ~lost /\ config.st = "ok" /\ config.key \in shown
       => env = [st |-> "ok", key |-> config.key]

\* A service started after api-reset has declared a token invalid does not
\* accept it, unless overlapping commands overwrite each other's files.
RestartRevokes ==
    ~lost /\ daemon.st = "on"
       => {daemon.tokens.readonly, daemon.tokens.admin} \cap daemon.gone = {}

\* A response encrypted with the previous key is imported during the grace
\* period of the rotation.
GraceKept == refused = {}
=============================================================================
