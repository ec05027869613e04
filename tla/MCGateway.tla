----------------------------- MODULE MCGateway -----------------------------
(* Small instances of the gateway for TLC. *)
EXTENDS GatewaySetup

CONSTANTS c1, c2

(* Command lines with and without options, one of them unknown; environments
   that ask for logs, for a file, for one that is not there, and that have a
   value of the wrong type; a file that repeats options given before it. *)
MCLines == {<<>>, "help" :> "", ("log-level" :> "debug") @@ ("no-such-option" :> "1")}
MCEnvs ==
  {<<>>,
   ("log-on-console" :> "true") @@ ("log-level" :> "info") @@ ("pub-impl-kv" :> << <<"k", "v">> >>),
   ("conf-file" :> "true") @@ ("conf-file-name" :> "f") @@ ("log-on-file" :> "true"),
   ("conf-file" :> "true") @@ ("conf-file-name" :> "g"),
   "pub-impl-kv" :> << <<"k", "v">>, <<"k", "v", "w">> >>,
   "log-on-syslog" :> "yes and no"}
MCFile == ("log-level" :> "error") @@ ("log-on-file" :> "false") @@ ("log-on-syslog" :> "true")
            @@ ("conf-file-name" :> "g")

MCInputs == {[line |-> l, env |-> e, files |-> "f" :> MCFile] : l \in MCLines, e \in MCEnvs}

=============================================================================
