-------------------------- MODULE MCToolInterceptor --------------------------
(* Requests, policies and reviewers for three calls in two threads.         *)
EXTENDS ToolInterceptor

CONSTANTS t1

MCConditions == BundledConditions

Nothing == [wrappers |-> <<>>, program |-> "other", flags |-> {}]
Plain == [tool |-> "plain", name |-> "other", action |-> "other", target |-> {}, input |-> {},
          command |-> Nothing, urls |-> <<>>, env |-> "local"]
Request(risk, facts, bytes, name, ids) ==
    [kind |-> "intercept", risk |-> risk, facts |-> facts, bytes |-> bytes, name |-> name, action |-> name,
     ids |-> ids, by |-> "dev"]
Anonymous == <<NoTrace, NoTrace, NoTrace, NoTrace>>

Readme  == Request(Plain, {"file_read", "readme_target"}, 9, "file_read", Anonymous)
Huge    == Request(Plain, {"file_read"}, 9000, "file_read", Anonymous)
Notes   == Request([Plain EXCEPT !.env = "shared"], {"file_write", "notes_target"}, 17, "file_write",
                   <<NoTrace, t1, t1, NoTrace>>)
Delete  == Request([Plain EXCEPT !.tool = "delete", !.name = "destructive"], {"file_delete"}, 9, "file_delete",
                   <<t1, NoTrace, NoTrace, NoTrace>>)
Send    == Request([Plain EXCEPT !.tool = "send", !.input = {"secret"}, !.urls = <<[https |-> FALSE, host |-> "public"]>>],
                   {"external_api_send"}, 0, "external_api_send", Anonymous)
RmRf  == Request([Plain EXCEPT !.tool = "shell", !.input = {"shell_pattern"},
                        !.command = [wrappers |-> <<"sh_c", "sudo">>, program |-> "rm", flags |-> {"r", "f"}]],
                   {"shell_command", "rm_rf_input"}, 0, "shell_command", Anonymous)

MCRequests == {Notes, [Notes EXCEPT !.kind = "evaluate"], Send}
MCQuestions == {Delete, Readme, Huge, RmRf}

Setup(mode, policy, none, reviewers, roles) ==
    [mode |-> mode, source |-> "bundled", policy |-> policy, default_resolver |-> none, reviewers |-> reviewers, roles |-> roles]
NoTable == <<>>
Table == [p \in {"lead", "guest"} |-> p = "lead"]
Owners == [r \in {"owner"} |-> [severities |-> {"high", "critical"}, actions |-> {"file_write", "file_delete"},
                                envs |-> Environments]]

\* Policies whose last rule is missing, permissive, not last or not alone.
Ends(rules) == [ProductionPolicy EXCEPT !.rules = rules]
Odd == {Ends(<<>>), Ends(<<AnyRule(1, 10, "allow", "low")>>),
        Ends(<<AnyRule(1, 10, "block", "low"), [AnyRule(2, 20, "allow", "low") EXCEPT !.before = {"file_read"}]>>),
        Ends(<<AnyRule(1, 10, "block", "low"), AnyRule(2, 20, "block", "low")>>),
        Ends(<<AnyRule(1, 20, "block", "low"), [AnyRule(1, 10, "allow", "low") EXCEPT !.before = {"file_read"}]>>),
        Ends(<<[AnyRule(1, 10, "block", "low") EXCEPT !.search = {"key_target"}, !.pattern.compiles = FALSE], AnyRule(2, 20, "block", "low")>>),
        [Ends(<<AnyRule(1, 10, "block", "low")>>) EXCEPT !.default = "allow"],
        Ends(<<AnyRule(1, 20, "block", "low"), [AnyRule(2, 10, "allow", "low") EXCEPT !.before = {"file_read"}]>>)}

MCSetups ==
    {Setup("production_safe", ProductionPolicy, FALSE, NoTable, Owners),
     Setup("observe", DefaultPolicy, FALSE, NoTable, NoTable),
     Setup("simulate", DefaultPolicy, TRUE, NoTable, NoTable)}
    \cup {[Setup("enforce", DefaultPolicy, FALSE, NoTable, NoTable) EXCEPT !.source = x] : x \in Sources \ {"bundled", "file"}}
    \cup {Setup("enforce", DefaultPolicy, FALSE, NoTable, NoTable),
          Setup("production_safe", ProductionPolicy, FALSE, Table, NoTable)}
    \cup {Setup("production_safe", p, TRUE, NoTable, NoTable) : p \in Odd \cup {DefaultPolicy}}

Answer(status, by, role, same) == [status |-> status, by |-> by, role |-> role, same_id |-> same]
MCAnswers == {Answer("approved", "lead", "owner", TRUE), Answer("approved", "dev", "owner", TRUE),
              Answer("approved", "guest", "visitor", TRUE), Answer("approved", Nobody, "owner", TRUE),
              Answer("rejected", "lead", "owner", TRUE), Answer("pending", "lead", "owner", TRUE),
              Answer("approved", "lead", "owner", FALSE)}
=============================================================================
