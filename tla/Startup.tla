------------------------------ MODULE Startup -------------------------------
(***************************************************************************)
(* The start of the engine under systemd: bootstrap reads the config file, *)
(* the environment and the credentials file, and main runs or gives up     *)
(* with code 2; Restart=always tries again. While it runs, the control     *)
(* thread replaces the credentials file: truncate, then write, either of   *)
(* which may fail or be cut off by the end of the process.                 *)
(*                                                                         *)
(* A key is [of, whole]: the account it belongs to, and whether all of its *)
(* characters are there. Account 0 is the one in the environment.          *)
(***************************************************************************)
EXTENDS ConfigFile

CONSTANTS
    Setups,         \* config file and environment of the service: [lines, env]
    Writable,       \* log paths that can be opened for appending
    MaxUpdates      \* bound: writes of the credentials file

ASSUME StartupAssumption == MaxUpdates \in Nat
ASSUME SetupsAssumption ==
    \A s \in Setups : s.lines \in Seq(FileLine) /\ s.env.keys \subseteq {"api", "secret"}

NoKey == [of |-> 0, whole |-> FALSE]    \* the empty string
Key(account) == [of |-> account, whole |-> TRUE]
NoKeys == [api |-> NoKey, secret |-> NoKey]
IsSet(key) == key # NoKey
Cut(key) == [key EXCEPT !.whole = FALSE]

VARIABLES
    setup,      \* the files and variables systemd starts the engine with
    engine,     \* "down", "running", or "refused": main returned 2
    cfg,        \* AppConfig of the last start
    exec,       \* the keys in exec_cfg
    creds,      \* the keys in the credentials file
    writing,    \* the keys the control thread is writing to that file, NoKeys for none
    writes,     \* accounts written so far; each update brings a new one
    broken,     \* history: the last write did not get all of its text into the file
    reply       \* code of the last POST /credentials/update

vars == <<setup, engine, cfg, exec, creds, writing, writes, broken, reply>>

Whole(a) == [api |-> Key(a), secret |-> Key(a)]

\* How much of the text for some keys may reach the file.
Reaching(keys) ==
    {NoKeys, [keys EXCEPT !.api = Cut(@), !.secret = NoKey], [keys EXCEPT !.secret = NoKey],
     [keys EXCEPT !.secret = Cut(@)], keys}

\* Text p written over the file from its beginning.
Over(file, p) == [f \in {"api", "secret"} |-> IF IsSet(p[f]) THEN p[f] ELSE file[f]]

\* A service that has no credentials file yet, or the one of account 1.
Init ==
    /\ setup \in Setups
    /\ engine = "down" /\ cfg = Defaults /\ exec = NoKeys
    /\ \/ creds = NoKeys /\ writes = 0
       \/ creds = Whole(1) /\ writes = 1
    /\ writing = NoKeys /\ broken = FALSE /\ reply = 0

-----------------------------------------------------------------------------
\* Per field, the environment's key before the file's.
KeysAtStart ==
    [api |-> IF "api" \in setup.env.keys THEN Key(0) ELSE creds.api,
     secret |-> IF "secret" \in setup.env.keys THEN Key(0) ELSE creds.secret]

Bootstraps(c, keys) ==
    /\ c.log_path \in Writable
    /\ c.dry_run \/ (IsSet(keys.api) /\ IsSet(keys.secret))

Start ==
    /\ engine # "running"
    /\ cfg' = Effective(setup.lines, setup.env)
    /\ exec' = KeysAtStart
    /\ engine' = IF Bootstraps(cfg', exec') THEN "running" ELSE "refused"
    /\ UNCHANGED <<setup, creds, writing, writes, broken, reply>>

\* Some prefix of what is being written reaches the disk.
WriteSome ==
    \E p \in Reaching(writing) : creds' = Over(creds, p) /\ broken' = (p # writing)

\* The process is stopped or dies, also in the middle of a write.
Die ==
    /\ engine = "running"
    /\ engine' = "down" /\ writing' = NoKeys
    /\ IF writing = NoKeys THEN UNCHANGED <<creds, broken>> ELSE WriteSome
    /\ UNCHANGED <<setup, cfg, exec, writes, reply>>

-----------------------------------------------------------------------------
(* POST /credentials/update and GET /credentials/status *)

\* Mutant: refused only when both are missing.
LacksBoth(api, secret) == ~api /\ ~secret

Lacks(api, secret) == ~api \/ ~secret

\* Mutant: without std::ios::trunc the old text stays.
OpenedAsItWas == creds

Opened == NoKeys

BadRequest(api, secret) ==
    /\ engine = "running" /\ writing = NoKeys
    /\ Lacks(api, secret)
    /\ reply' = 400
    /\ UNCHANGED <<setup, engine, cfg, exec, creds, writing, writes, broken>>

OpenFile(api, secret) ==
    /\ engine = "running" /\ writing = NoKeys /\ writes < MaxUpdates
    /\ ~Lacks(api, secret)
    /\ creds' = Opened
    /\ writes' = writes + 1 /\ broken' = TRUE
    /\ writing' = [api |-> IF api THEN Key(writes') ELSE NoKey,
                   secret |-> IF secret THEN Key(writes') ELSE NoKey]
    /\ UNCHANGED <<setup, engine, cfg, exec, reply>>

OpenFails(api, secret) ==
    /\ engine = "running" /\ writing = NoKeys
    /\ ~Lacks(api, secret)
    /\ reply' = 500
    /\ UNCHANGED <<setup, engine, cfg, exec, creds, writing, writes, broken>>

\* Nobody looks at the stream after the writes: a full disk is answered with 200 as well.
WriteFile ==
    /\ writing # NoKeys
    /\ WriteSome
    /\ writing' = NoKeys /\ reply' = 200
    /\ UNCHANGED <<setup, engine, cfg, exec, writes>>

\* GET /credentials/status: what the process has, or else what the file has.
StatusSet ==
    /\ IsSet(exec.api) \/ IsSet(creds.api)
    /\ IsSet(exec.secret) \/ IsSet(creds.secret)

-----------------------------------------------------------------------------
Update(api, secret) == BadRequest(api, secret) \/ OpenFile(api, secret) \/ OpenFails(api, secret)

Next ==
    \/ Start
    \/ Die
    \/ \E api, secret \in BOOLEAN : Update(api, secret)
    \/ WriteFile

StartSpec == Init /\ [][Next]_vars
-----------------------------------------------------------------------------
(* Properties *)

\* From a file in the form of config/engine.yaml each setting is in force as the last line of its
\* section says, unless the environment has a word on it, and as built in when neither does
\* (app_support.cpp:44, bootstrap.cpp:12).
ConfigHonoured ==
    LET lines == setup.lines
        env == setup.env
        dry == IF env.dry_run # Unset THEN env.dry_run ELSE Word(lines, DryRun, "true")
        seconds == IF env.run_seconds \in Numbers THEN env.run_seconds
                   ELSE Word(lines, RunSeconds, Defaults.run_seconds)
        path == IF env.log_path \notin {Unset, ""} THEN env.log_path
                ELSE Word(lines, LogPath, Defaults.log_path)
    IN engine # "down" /\ WellFormed(lines) =>
        /\ dry \in Truths => cfg.dry_run
        /\ dry \in Falsities => ~cfg.dry_run
        /\ cfg.run_seconds = IF seconds \in Numbers THEN seconds ELSE Defaults.run_seconds
        /\ cfg.log_path = path

\* Whatever the file looks like, the engine trades live only when the environment says so, or is
\* silent and some line names dry_run without a spelling of true: no section opened by mistake,
\* wrong indentation or missing key does that (app_support.cpp:59, app_support.cpp:79).
LiveOnlyIfNamed ==
    engine = "running" /\ ~cfg.dry_run =>
        IF setup.env.dry_run = Unset
        THEN \E i \in 1..Len(setup.lines) :
                Last(setup.lines[i].key) = Last(DryRun) /\ setup.lines[i].val \notin Truths \cup {""}
        ELSE setup.env.dry_run \notin Truths

\* The two keys the engine signs with belong to one account exactly when the environment has both
\* or neither: with one of them it takes the other from the file. However writes of that file were
\* cut off, the first key is whole, unless it is the file's in front of a second one of the
\* environment (app_support.cpp:265, bootstrap.cpp:32).
KeysOfOneAccount ==
    engine = "running" /\ IsSet(exec.api) /\ IsSet(exec.secret) =>
        /\ exec.api.of = exec.secret.of <=> setup.env.keys \in {{}, {"api", "secret"}}
        /\ exec.api.whole \/ setup.env.keys = {"secret"}

\* When GET /credentials/status shows both keys and the last write was whole, the restart that
\* POST /credentials/update asks for will not be refused for missing keys
\* (control_api_router.cpp:46, bootstrap.cpp:40).
StatusForetellsStart ==
    engine = "running" /\ StatusSet /\ ~broken =>
        IsSet(KeysAtStart.api) /\ IsSet(KeysAtStart.secret)
=============================================================================
