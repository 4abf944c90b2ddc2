---------------------------- MODULE Configuration ----------------------------
(***************************************************************************)
(* What a configuration file has to satisfy (config.rs), what its settings *)
(* come to for a job, and what becomes of an accepted one when it is run:  *)
(* clients and credentials are built (auth.rs), by the remote-write        *)
(* endpoints before anything starts and by each job for itself, and every  *)
(* loop makes a ticker of its interval.                                    *)
(*                                                                         *)
(* A setting that is not in the file is Unset.  Texts are model values and *)
(* an empty text is Empty.                                                 *)
(***************************************************************************)
EXTENDS Naturals, Sequences, FiniteSets, Functions

CONSTANTS
  Unset,
  EmptyText,
  Unusable   \* of a client or of credentials that cannot be built

IsSet(setting) == setting # Unset
Or(setting, default) == IF IsSet(setting) THEN setting ELSE default

ProtocolNames ==
  {"PrometheusProto", "PrometheusText0.0.4", "PrometheusText1.0.0",
   "OpenMetricsText0.0.1", "OpenMetricsText1.0.0"}
IsSupported(protocol) == protocol \in {"PrometheusProto", "PrometheusText0.0.4"}

-----------------------------------------------------------------------------
\* Validation

ValidProtocols(protocols) ==
  /\ protocols # <<>>
  /\ \A i \in DOMAIN protocols : IsSupported(protocols[i])
  /\ IsInjective(protocols)

ValidRole(role) == role \in {"pod", "endpointslice"}

\* basic, authorization: Unset or a secret, given as it is or by a file.
ValidSecret(secret) == IsSet(secret) => ~(IsSet(secret.text) /\ IsSet(secret.file))

\* Mutant: the token is not counted.
ExclusiveOfTwo(auth) == ~(IsSet(auth.basic) /\ IsSet(auth.authorization))

\* validate_exclusive_auth, which does not look at bearer_token_file.
Exclusive(auth) ==
  Cardinality({source \in {"basic", "authorization", "token"} : IsSet(auth[source])}) <= 1

ValidAuth(auth) ==
  ValidSecret(auth.basic) /\ ValidSecret(auth.authorization) /\ Exclusive(auth)

ValidJob(job) ==
  /\ job.name # EmptyText
  /\ IsSet(job.protocols) => ValidProtocols(job.protocols)
  /\ job.scheme \in {"http", "https"}
  /\ ValidAuth(job.auth)
  /\ \A i \in DOMAIN job.roles : ValidRole(job.roles[i])

ValidQueue(queue) ==
  /\ queue.capacity # 0 /\ queue.max_samples_per_send # 0
  /\ queue.min_shards # 0 /\ queue.min_shards <= queue.max_shards

ValidRemote(remote) ==
  /\ remote.url.scheme \in {"http", "https"} /\ remote.url.host # EmptyText
  /\ ValidAuth(remote.auth)
  /\ ValidQueue(remote.queue)

\* Config::validate; `server` are the sections of a server in the file.
Validates(config) ==
  /\ config.server = {}
  /\ IsSet(config.global.protocols) => ValidProtocols(config.global.protocols)
  /\ \A i \in DOMAIN config.jobs : ValidJob(config.jobs[i])
  /\ IsInjective([i \in DOMAIN config.jobs |-> config.jobs[i].name])
  /\ \A i \in DOMAIN config.remotes : ValidRemote(config.remotes[i])

\* main::load_config
Accepts(config) == Validates(config) /\ config.remotes # <<>>

-----------------------------------------------------------------------------
\* The settings of a job

Interval(job, global) == Or(job.interval, global.interval)
NativeHistograms(job, global) == Or(job.native_histograms, global.native_histograms)
ClassicHistograms(job, global) == Or(job.classic_histograms, global.classic_histograms)

Protocols(job, global) ==
  Or(job.protocols,
     Or(global.protocols,
        IF NativeHistograms(job, global) THEN <<"PrometheusProto", "PrometheusText0.0.4">>
        ELSE <<"PrometheusText0.0.4">>))

-----------------------------------------------------------------------------
\* Clients and credentials; `readable` are the files that can be read.

\* build_client; the reading and parsing of certificates is being readable.
ClientBuilds(tls, readable) == (IsSet(tls.ca_file) => tls.ca_file \in readable) /\ ~tls.client

SecretOf(secret, readable) ==
  IF IsSet(secret.text) THEN IF IsSet(secret.file) THEN Unusable ELSE secret.text
  ELSE IF ~IsSet(secret.file) THEN EmptyText
  ELSE IF secret.file \in readable THEN secret.file ELSE Unusable

Credential(source, secret) ==
  IF secret = Unusable THEN Unusable ELSE [source |-> source, secret |-> secret]

\* Credentials::resolve; what is read from a file is named after it.
Resolve(auth, readable) ==
  IF IsSet(auth.basic) THEN Credential("basic", SecretOf(auth.basic, readable))
  ELSE IF IsSet(auth.authorization)
    THEN Credential("authorization", SecretOf(auth.authorization, readable))
  ELSE IF IsSet(auth.token) THEN Credential("token", auth.token)
  ELSE IF IsSet(auth.token_file)
    THEN Credential("token_file",
                    IF auth.token_file \in readable THEN auth.token_file ELSE Unusable)
  ELSE Credential("none", EmptyText)

\* Endpoint::new; an endpoint has no bearer_token_file.
EndpointBuilds(remote, readable) ==
  /\ ClientBuilds(remote.tls, readable)
  /\ Resolve([remote.auth EXCEPT !.token_file = Unset], readable) # Unusable

\* remote_write::spawn, whose failure ends the process.
Starts(config, readable) ==
  \A i \in DOMAIN config.remotes : EndpointBuilds(config.remotes[i], readable)

\* run_job until its discovery starts; its failure disables the job.
JobStarts(job, readable) ==
  ClientBuilds(job.tls, readable) /\ Resolve(job.auth, readable) # Unusable

\* tokio::time::interval panics for a period of zero, and so does the offset of
\* a scrape loop (a remainder by its interval).
Ticks(period) == period # 0

\* The tasks that live once the process runs: they are spawned and tick.
Alive(config, readable) ==
  IF ~Starts(config, readable) THEN {}
  ELSE {<<"sender", i>> : i \in {j \in DOMAIN config.remotes :
                                   Ticks(config.remotes[j].queue.batch_send_deadline)}}
       \cup {<<"loops", i>> : i \in {j \in DOMAIN config.jobs :
               /\ JobStarts(config.jobs[j], readable)
               /\ Ticks(Interval(config.jobs[j], config.global))}}
       \cup {<<"files", i>> : i \in {j \in DOMAIN config.jobs :
               /\ JobStarts(config.jobs[j], readable)
               /\ \A r \in config.jobs[j].refresh : Ticks(r)}}
       \cup (IF Ticks(config.global.interval) THEN {<<"monitor">>} ELSE {})

-----------------------------------------------------------------------------
\* Properties

SecretFiles(auth) ==
  {file \in {auth.token_file} \cup {auth[s].file : s \in {x \in {"basic", "authorization"} :
                                                          IsSet(auth[x])}} : IsSet(file)}
CaFile(tls) == {file \in {tls.ca_file} : IsSet(file)}

\* What no validation of the file can or does rule out for a part of it.
Hindered(part, periods, readable) ==
  \/ ~(SecretFiles(part.auth) \cup CaFile(part.tls) \subseteq readable)
  \/ part.tls.client
  \/ 0 \in periods

\* "on reload, the new configuration is validated first": what load accepts
\* runs.  Only a file that cannot be read, client certificates and a period of
\* zero stop an accepted configuration, an endpoint's all of it and a job's that
\* job; no combination of settings does.
AcceptedRuns(config, readable) ==
  LET endpointsBuild == \A i \in DOMAIN config.remotes :
                          ~Hindered(config.remotes[i], {}, readable)
      jobs == {i \in DOMAIN config.jobs :
                 ~Hindered(config.jobs[i], {Interval(config.jobs[i], config.global)}
                             \cup config.jobs[i].refresh, readable)}
      alive == Alive(config, readable)
  IN Accepts(config) /\ endpointsBuild =>
       /\ \A i \in jobs : {<<"loops", i>>, <<"files", i>>} \subseteq alive
       /\ \A i \in DOMAIN config.remotes :
            <<"sender", i>> \in alive \/ config.remotes[i].queue.batch_send_deadline = 0

\* What a source of credentials is given in the file.
Given(auth, source) ==
  LET settings ==
        CASE source \in {"basic", "authorization"} -> {auth[source].text, auth[source].file}
          [] source \in {"token", "token_file"} -> {auth[source]}
          [] OTHER -> {}
  IN settings \ {Unset}

\* A request carries the credentials that are configured: no accepted set of
\* settings has a second source, or a second secret of its source, that is
\* passed over; but for a bearer_token_file, which any other source overrules
\* without a word.
CredentialsAsConfigured(auth, readable) ==
  LET sources == {s \in {"basic", "authorization", "token", "token_file"} : IsSet(auth[s])}
      resolved == Resolve(auth, readable)
  IN ValidAuth(auth) /\ SecretFiles(auth) \subseteq readable =>
       /\ resolved # Unusable
       /\ resolved.source \in sources \cup {"none"}
       /\ \A source \in sources :
            \/ source = resolved.source
            \/ source = "token_file" /\ resolved.source # "none"
       /\ \A given \in Given(auth, resolved.source) : given = resolved.secret
=============================================================================
