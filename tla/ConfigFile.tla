----------------------------- MODULE ConfigFile -----------------------------
(***************************************************************************)
(* parse_simple_yaml, load_config and the overrides by the environment, as *)
(* functions of the file's lines. A line is [indent, key, val]: whether it *)
(* starts with two blanks, the names before the colon (more than one when  *)
(* they are joined by dots), and the value, "" for none. Blank lines,      *)
(* comments and lines without a colon are skipped by the parser and are    *)
(* not represented, nor are the quotes around a value. Values are strings; *)
(* of the settings there is one for each of three ways of reading them.    *)
(***************************************************************************)
EXTENDS Naturals, Sequences, SequencesExt

CONSTANTS
    Truths,     \* spellings read as true: 1, true, TRUE, yes, YES
    Falsities,  \* spellings that mean false; every other word is read as false, too
    Numbers     \* values std::stoi accepts

ASSUME WordsAssumption == "true" \in Truths /\ Truths \cap Falsities = {}

Unset == "unset"        \* getenv returned no string
DryRun == <<"execution", "dry_run">>
RunSeconds == <<"runtime", "run_seconds">>
LogPath == <<"logging", "path">>

Defaults == [dry_run |-> TRUE, run_seconds |-> "0", log_path |-> "market_logs.jsonl"]

\* A line without a name before its colon is left out.
FileLine == [indent: BOOLEAN, key: Seq(STRING) \ {<<>>}, val: STRING]

-----------------------------------------------------------------------------
Put(kv, k, v) == [x \in DOMAIN kv \cup {k} |-> IF x = k THEN v ELSE kv[x]]

\* Mutant: a key read twice keeps its first value, as with emplace.
ReadLineOnce(st, l) ==
    LET k == IF l.indent THEN st.section \o l.key ELSE l.key
    IN IF l.val = "" THEN [st EXCEPT !.section = l.key]
       ELSE IF k \in DOMAIN st.kv THEN st
       ELSE [st EXCEPT !.kv = Put(@, k, l.val)]

\* Any line without a value opens a section, an indented one, too.
ReadLine(st, l) ==
    IF l.val = "" THEN [st EXCEPT !.section = l.key]
    ELSE LET k == IF l.indent THEN st.section \o l.key ELSE l.key
         IN [st EXCEPT !.kv = Put(@, k, l.val)]

Blank == [section |-> <<>>, kv |-> [k \in {} |-> ""]]

\* The parser's state after each line.
Parse(lines) ==
    LET read[n \in 0..Len(lines)] == IF n = 0 THEN Blank ELSE ReadLine(read[n - 1], lines[n])
    IN read[Len(lines)].kv

\* Mutant: a missing key is not told from one that says no.
GetBoolOrFalse(kv, k, default) == k \in DOMAIN kv /\ kv[k] \in Truths

GetBool(kv, k, default) == IF k \in DOMAIN kv THEN kv[k] \in Truths ELSE default
GetInt(kv, k, default) == IF k \in DOMAIN kv /\ kv[k] \in Numbers THEN kv[k] ELSE default
GetString(kv, k, default) == IF k \in DOMAIN kv THEN kv[k] ELSE default

LoadConfig(lines) ==
    LET kv == Parse(lines)
    IN [dry_run |-> GetBool(kv, DryRun, Defaults.dry_run),
        run_seconds |-> GetInt(kv, RunSeconds, Defaults.run_seconds),
        log_path |-> GetString(kv, LogPath, Defaults.log_path)]

\* The environment: unset keeps the file's value; set to anything else than a truth is false.
EnvIsTrue(v, default) == IF v = Unset THEN default ELSE v \in Truths
EnvOrInt(v, default) == IF v \in Numbers THEN v ELSE default
EnvOrEmpty(v, default) == IF v \in {Unset, ""} THEN default ELSE v

Effective(lines, env) ==
    LET cfg == LoadConfig(lines)
    IN [dry_run |-> EnvIsTrue(env.dry_run, cfg.dry_run),
        run_seconds |-> EnvOrInt(env.run_seconds, cfg.run_seconds),
        log_path |-> EnvOrEmpty(env.log_path, cfg.log_path)]

-----------------------------------------------------------------------------
(* What a file in the form of config/engine.yaml means: headers at the margin, items under them.   *)

IsHeader(l) == ~l.indent /\ Len(l.key) = 1 /\ l.val = ""
IsItem(l) == l.indent /\ Len(l.key) = 1 /\ l.val # ""
WellFormed(lines) ==
    /\ \A i \in 1..Len(lines) : IsHeader(lines[i]) \/ IsItem(lines[i])
    /\ lines # <<>> => IsHeader(lines[1])

\* The line that sets a key: the last of its name whose nearest header above is its section.
SetsAt(lines, i, k) ==
    /\ IsItem(lines[i]) /\ lines[i].key = <<k[2]>>
    /\ \E h \in 1..i : /\ IsHeader(lines[h]) /\ lines[h].key = <<k[1]>>
                       /\ \A j \in h + 1..i : IsItem(lines[j])

\* What the file says of key k, or otherwise when it says nothing.
Word(lines, k, otherwise) ==
    LET set == {i \in 1..Len(lines) : SetsAt(lines, i, k)}
    IN IF set = {} THEN otherwise ELSE lines[CHOOSE i \in set : \A j \in set : j <= i].val
=============================================================================
