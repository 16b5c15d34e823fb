----------------------------- MODULE MCStartup ------------------------------
(* Files of up to three lines of any shape and of two sections with an item each, without overrides; *)
(* every environment on two files.                                                                  *)
EXTENDS Startup

MCTruths == {"true", "1"}
MCFalsities == {"false"}
MCNumbers == {"0", "60"}
MCWritable == {"market_logs.jsonl", "/var/log/ok"}

Line(indent, key, val) == [indent |-> indent, key |-> key, val |-> val]
Header(section) == Line(FALSE, <<section>>, "")
Headers == {Header("execution"), Header("runtime"), Header("logging")}
Items ==
    {Line(TRUE, <<"dry_run">>, v) : v \in {"true", "false", "True"}}
        \cup {Line(TRUE, <<"run_seconds">>, v) : v \in {"60", "junk"}}
        \cup {Line(TRUE, <<"path">>, v) : v \in {"/var/log/ok", "/root/log"}}
Odd ==
    {Line(TRUE, <<"dry_run">>, ""), Line(FALSE, <<"dry_run">>, "false"),
     Line(FALSE, DryRun, "false"), Line(TRUE, DryRun, "false")}

MCFiles ==
    BoundedSeq(Headers \cup Items \cup Odd, 3)
        \cup {<<h1, i1, h2, i2>> : h1, h2 \in Headers, i1, i2 \in Items}

Env(d, r, p, k) == [dry_run |-> d, run_seconds |-> r, log_path |-> p, keys |-> k]
MCEnvs ==
    {Env(d, r, p, k) :
        d \in {Unset, "1", "no", ""}, r \in {Unset, "60", "junk"},
        p \in {Unset, "", "/var/log/ok", "/root/log"}, k \in SUBSET {"api", "secret"}}

MCSetups ==
    {[lines |-> f, env |-> Env(Unset, Unset, Unset, {})] : f \in MCFiles}
        \cup {[lines |-> f, env |-> e] :
                f \in {<<>>, <<Header("execution"), Line(TRUE, <<"dry_run">>, "false")>>}, e \in MCEnvs}
=============================================================================
