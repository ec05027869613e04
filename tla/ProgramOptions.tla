--------------------------- MODULE ProgramOptions ---------------------------
(***************************************************************************)
(* ProgramOptions: the options of the gateway, read from the command line, *)
(* the environment and, if these ask for it, a file.  An input is a record *)
(* of the three: line and env map the names given to their values, files   *)
(* maps the files that can be opened to their contents.  Names and values  *)
(* are strings; the value of a key:value option is the sequence of its     *)
(* entries, each split at its colons.  Options that only reach a driver as *)
(* they are behave as storage-path or as pub-impl-kv.                      *)
(***************************************************************************)
EXTENDS Naturals, Sequences, TLC

Flags == {"conf-file", "log-on-console", "log-on-file", "log-on-syslog"}
Options == Flags \cup {"help", "conf-file-name", "log-level", "storage-path", "pub-impl-kv"}

Defaults == [o \in Flags |-> "false"] @@
            [o \in {"conf-file-name"} |-> ""] @@ [o \in {"log-level"} |-> "info"] @@
            [o \in {"storage-path"} |-> "ekg.sqlite"]

Valid(o, v) == o \in Flags => v \in {"true", "false"}

\* Mutant: a later source overwrites an earlier one.
StoredLast(given, source) == source @@ given
\* po::store: an option an earlier source has given is final.
Stored(given, source) ==
  [o \in DOMAIN given \cup DOMAIN source |-> IF o \in DOMAIN given THEN given[o] ELSE source[o]]

\* An unknown name, or a value that has not the option's type, throws.
Accepted(given, source) ==
  \A o \in DOMAIN source : o \in Options /\ (o \in DOMAIN given \/ Valid(o, source[o]))

\* allow_unregistered
Registered(line) == [o \in DOMAIN line \cap Options |-> line[o]]

GetOption(given, o) == IF o \in DOMAIN given THEN given[o] ELSE Defaults[o]
OptionConfigure(given, o) == o \in DOMAIN given \cup DOMAIN Defaults

\* What parse() has stored when it has looked at everything but the file.
BeforeFile(i) == Stored(Registered(i.line), i.env)
FromFile(i) == GetOption(BeforeFile(i), "conf-file") = "true"
FileName(i) == GetOption(BeforeFile(i), "conf-file-name")

ParseThrows(i) ==
  ~ /\ Accepted(<<>>, Registered(i.line)) /\ Accepted(Registered(i.line), i.env)
    /\ FromFile(i) => /\ FileName(i) # "" /\ FileName(i) \in DOMAIN i.files
                      /\ Accepted(BeforeFile(i), i.files[FileName(i)])

Parsed(i) == IF FromFile(i) THEN Stored(BeforeFile(i), i.files[FileName(i)]) ELSE BeforeFile(i)

\* getPublisherConfiguration, getSubscriberConfiguration and
\* parseKVCustomParam, which throws unless every entry is a key and a value.
KVEntries(given) == IF OptionConfigure(given, "pub-impl-kv") THEN given["pub-impl-kv"] ELSE <<>>
KVThrows(given) == \E k \in DOMAIN KVEntries(given) : Len(KVEntries(given)[k]) # 2

SinkFlag == [console |-> "log-on-console", file |-> "log-on-file", syslog |-> "log-on-syslog"]
LogSinks(given) == {s \in DOMAIN SinkFlag : GetOption(given, SinkFlag[s]) = "true"}

=============================================================================
