---------------------------- MODULE AlgorithmProofs ----------------------------
(***************************************************************************)
(* Facts about the other pure parts of the agent, for inputs of every      *)
(* size, and theorems about MCAlgorithms, which runs all of them.          *)
(***************************************************************************)
EXTENDS MCAlgorithms, PipelineProofs

\* varint_len's multiplication and shift give the number of groups of seven
\* bits that put_varint writes, for every position of the highest bit.
THEOREM VarintLenIsExact == VarintLenExact
  BY SMT DEF VarintLenExact, LengthOfBit

-----------------------------------------------------------------------------
\* The provers know no powers; of 2 ^ n only that it is a positive integer is
\* used, and assumed where it is.
PowerAssumption(n) == 2 ^ n \in Nat \ {0}

\* Division rounds down, also below zero.
LEMMA DivBounds ==
  ASSUME NEW a \in Int, NEW width \in Nat \ {0}
  PROVE  /\ a \div width \in Int
         /\ a >= 0 => 0 <= a \div width /\ a \div width <= a
         /\ a < 0 => a <= a \div width /\ a \div width < 0
  OBVIOUS

\* "Indices only ever move towards 1": the bucket an index is merged into lies
\* between it and 1, so what was in the range of an i32 stays there, for every
\* index and every distance between two schemas.
THEOREM TargetTowardsOne ==
  ASSUME NEW index \in Int, NEW shift \in Nat, PowerAssumption(shift % IndexBits)
  PROVE  \/ 1 <= Target(index, shift) /\ Target(index, shift) <= index
         \/ index <= Target(index, shift) /\ Target(index, shift) <= 1
<1> DEFINE width == 2 ^ (shift % IndexBits)
<1>1. width \in Nat \ {0}
  BY DEF PowerAssumption
<1>2. Target(index, shift) = (index - 1) \div width + 1
  BY DEF Target, ShiftRight
<1> HIDE DEF width
<1> QED
  BY <1>1, <1>2, DivBounds

-----------------------------------------------------------------------------
\* The settings of credentials over a set of texts, and what they come to.
Secrets(Texts) == [text : Texts \cup {Unset}, file : Texts \cup {Unset}]
Auths(Texts) ==
  [basic : Secrets(Texts) \cup {Unset}, authorization : Secrets(Texts) \cup {Unset},
   token : Texts \cup {Unset}, token_file : Texts \cup {Unset}]
Sources == {"basic", "authorization", "token", "token_file", "none"}

\* What is not set and what cannot be used are none of the texts and secrets.
TextsAssumption(Texts) ==
  /\ EmptyText \in Texts /\ Unset \notin Texts /\ Unusable \notin Texts
  /\ Unset \notin Secrets(Texts)
  /\ Unusable \notin [source : Sources, secret : Texts]

\* Of two of the three sources one is too many.
LEMMA ExclusiveMeansOne ==
  ASSUME NEW auth, Exclusive(auth)
  PROVE  /\ ~(IsSet(auth.basic) /\ IsSet(auth.authorization))
         /\ ~(IsSet(auth.basic) /\ IsSet(auth.token))
         /\ ~(IsSet(auth.authorization) /\ IsSet(auth.token))
<1> DEFINE present == {source \in {"basic", "authorization", "token"} : IsSet(auth[source])}
<1>1. IsFiniteSet({"basic", "authorization", "token"})
  <2>1. IsFiniteSet({"token"})
    BY FS_Singleton
  <2>2. IsFiniteSet({"token"} \cup {"basic"}) /\ IsFiniteSet({"token"} \cup {"basic"} \cup {"authorization"})
    BY <2>1, FS_AddElement
  <2>3. {"token"} \cup {"basic"} \cup {"authorization"} = {"basic", "authorization", "token"}
    OBVIOUS
  <2> QED  BY <2>2, <2>3
<1>2. ASSUME NEW a, NEW b, a \in present, b \in present, a # b PROVE FALSE
  <2>1. IsFiniteSet({a}) /\ Cardinality({a}) = 1
    BY FS_Singleton
  <2>2. Cardinality({a} \cup {b}) = 2 /\ IsFiniteSet({a} \cup {b})
    BY <1>2, <2>1, FS_AddElement
  <2>3. {a} \cup {b} \in SUBSET present
    BY <1>2
  <2>4. IsFiniteSet(present) /\ present \in SUBSET {"basic", "authorization", "token"}
    BY <1>1, FS_Subset
  <2>5. Cardinality({a} \cup {b}) <= Cardinality(present) /\ Cardinality(present) \in Nat
    BY <2>3, <2>4, FS_Subset, FS_CardinalityType
  <2>6. Cardinality(present) <= 1
    BY DEF Exclusive
  <2> QED  BY <2>2, <2>5, <2>6
<1>3. /\ "basic" # "authorization" /\ "basic" # "token" /\ "authorization" # "token"
      /\ IsSet(auth.basic) => "basic" \in present
      /\ IsSet(auth.authorization) => "authorization" \in present
      /\ IsSet(auth.token) => "token" \in present
  OBVIOUS
<1> HIDE DEF present
<1> QED  BY <1>2, <1>3

\* What a secret comes to whose file can be read: the one text it gives.
LEMMA SecretGiven ==
  ASSUME NEW Texts, TextsAssumption(Texts), NEW secret \in Secrets(Texts), NEW readable,
         ValidSecret(secret), IsSet(secret.file) => secret.file \in readable
  PROVE  /\ SecretOf(secret, readable) \in Texts
         /\ \A given \in {secret.text, secret.file} \ {Unset} :
              given = SecretOf(secret, readable)
<1>1. IsSet(secret)
  BY DEF TextsAssumption, IsSet
<1> QED
  BY <1>1 DEF TextsAssumption, Secrets, ValidSecret, SecretOf, IsSet

\* A request carries the credentials that are configured (Credentials::resolve):
\* for all settings over any texts and any files that can be read.
THEOREM CredentialsCarried ==
  ASSUME NEW Texts, TextsAssumption(Texts), NEW auth \in Auths(Texts), NEW readable
  PROVE  CredentialsAsConfigured(auth, readable)
<1> SUFFICES ASSUME ValidAuth(auth), SecretFiles(auth) \subseteq readable
             PROVE  CredentialsAsConfigured(auth, readable)
  BY DEF CredentialsAsConfigured
<1> DEFINE resolved == Resolve(auth, readable)
           sources == {s \in {"basic", "authorization", "token", "token_file"} : IsSet(auth[s])}
<1>1. /\ IsSet(auth.basic) => ~IsSet(auth.authorization) /\ ~IsSet(auth.token)
      /\ IsSet(auth.authorization) => ~IsSet(auth.token)
  BY ExclusiveMeansOne DEF ValidAuth
<1>2. \A source \in Sources, secret \in Texts :
        /\ Credential(source, secret) = [source |-> source, secret |-> secret]
        /\ Credential(source, secret) # Unusable
  BY DEF Credential, TextsAssumption
<1>3. ASSUME NEW s \in {"basic", "authorization"}, IsSet(auth[s])
      PROVE  /\ SecretOf(auth[s], readable) \in Texts
             /\ \A given \in Given(auth, s) : given = SecretOf(auth[s], readable)
  <2>1. auth[s] \in Secrets(Texts) /\ ValidSecret(auth[s])
    BY <1>3 DEF Auths, IsSet, ValidAuth
  <2>2. IsSet(auth[s].file) => auth[s].file \in readable
    BY <1>3 DEF SecretFiles
  <2> QED
    BY <2>1, <2>2, SecretGiven DEF Given
<1>4. /\ IsSet(auth.token) => auth.token \in Texts
      /\ IsSet(auth.token_file) => auth.token_file \in Texts /\ auth.token_file \in readable
      /\ EmptyText \in Texts
  BY DEF Auths, IsSet, SecretFiles, TextsAssumption
<1>5. ASSUME NEW source \in Sources, NEW secret \in Texts,
             resolved = Credential(source, secret),
             source \in sources \cup {"none"},
             \A s \in sources : s = source \/ (s = "token_file" /\ source # "none"),
             \A given \in Given(auth, source) : given = secret
      PROVE  CredentialsAsConfigured(auth, readable)
  <2>1. resolved # Unusable /\ resolved.source = source /\ resolved.secret = secret
    BY <1>2, <1>5
  <2> QED
    BY <1>5, <2>1 DEF CredentialsAsConfigured
<1>6. CASE IsSet(auth.basic)
  <2>1. resolved = Credential("basic", SecretOf(auth.basic, readable))
    BY <1>6 DEF Resolve
  <2>2. \A s \in sources : s = "basic" \/ (s = "token_file" /\ "basic" # "none")
    BY <1>1, <1>6
  <2> QED
    BY <1>3, <1>5, <1>6, <2>1, <2>2 DEF Sources
<1>7. CASE ~IsSet(auth.basic) /\ IsSet(auth.authorization)
  <2>1. resolved = Credential("authorization", SecretOf(auth.authorization, readable))
    BY <1>7 DEF Resolve
  <2>2. \A s \in sources : s = "authorization" \/ (s = "token_file" /\ "authorization" # "none")
    BY <1>1, <1>7
  <2> QED
    BY <1>3, <1>5, <1>7, <2>1, <2>2 DEF Sources
<1>8. CASE ~IsSet(auth.basic) /\ ~IsSet(auth.authorization) /\ IsSet(auth.token)
  <2>1. resolved = Credential("token", auth.token)
    BY <1>8 DEF Resolve
  <2>2. \A s \in sources : s = "token" \/ (s = "token_file" /\ "token" # "none")
    BY <1>8
  <2>3. \A given \in Given(auth, "token") : given = auth.token
    BY DEF Given
  <2> QED
    BY <1>4, <1>5, <1>8, <2>1, <2>2, <2>3 DEF Sources
<1>9. CASE /\ ~IsSet(auth.basic) /\ ~IsSet(auth.authorization) /\ ~IsSet(auth.token)
           /\ IsSet(auth.token_file)
  <2>1. resolved = Credential("token_file", auth.token_file)
    BY <1>4, <1>9 DEF Resolve
  <2>2. \A s \in sources : s = "token_file"
    BY <1>9
  <2>3. \A given \in Given(auth, "token_file") : given = auth.token_file
    BY DEF Given
  <2> QED
    BY <1>4, <1>5, <1>9, <2>1, <2>2, <2>3 DEF Sources
<1>10. CASE /\ ~IsSet(auth.basic) /\ ~IsSet(auth.authorization) /\ ~IsSet(auth.token)
            /\ ~IsSet(auth.token_file)
  <2>1. resolved = Credential("none", EmptyText)
    BY <1>10 DEF Resolve
  <2>2. sources = {}
    BY <1>10
  <2>3. Given(auth, "none") = {}
    BY DEF Given
  <2> QED
    BY <1>4, <1>5, <2>1, <2>2, <2>3 DEF Sources
<1> QED
  BY <1>6, <1>7, <1>8, <1>9, <1>10

\* Files that can be read and credentials that are accepted do not stop a part
\* of the configuration.
LEMMA AcceptedResolves ==
  ASSUME NEW Texts, TextsAssumption(Texts), NEW auth \in Auths(Texts), NEW readable,
         ValidAuth(auth), SecretFiles(auth) \subseteq readable
  PROVE  Resolve(auth, readable) # Unusable
  BY CredentialsCarried DEF CredentialsAsConfigured

\* What load_config accepts runs, whatever it says: for any number of jobs and
\* endpoints, any of their settings, and any files that can be read.
THEOREM AcceptedConfigurationRuns ==
  ASSUME NEW Texts, TextsAssumption(Texts), NEW config, NEW readable,
         \A i \in DOMAIN config.jobs : config.jobs[i].auth \in Auths(Texts),
         \A i \in DOMAIN config.remotes : config.remotes[i].auth \in Auths(Texts)
  PROVE  AcceptedRuns(config, readable)
<1> DEFINE jobs == {i \in DOMAIN config.jobs :
                      ~Hindered(config.jobs[i], {Interval(config.jobs[i], config.global)}
                                  \cup config.jobs[i].refresh, readable)}
           alive == Alive(config, readable)
<1> SUFFICES ASSUME Accepts(config),
                    \A i \in DOMAIN config.remotes : ~Hindered(config.remotes[i], {}, readable)
             PROVE  /\ \A i \in jobs : {<<"loops", i>>, <<"files", i>>} \subseteq alive
                    /\ \A i \in DOMAIN config.remotes :
                         \/ <<"sender", i>> \in alive
                         \/ config.remotes[i].queue.batch_send_deadline = 0
  BY DEF AcceptedRuns
<1>1. ASSUME NEW i \in DOMAIN config.remotes
      PROVE  EndpointBuilds(config.remotes[i], readable)
  <2> DEFINE auth == [config.remotes[i].auth EXCEPT !.token_file = Unset]
  <2>1. auth \in Auths(Texts) /\ config.remotes[i].auth \in Auths(Texts)
    BY DEF Auths
  <2>2. ValidAuth(config.remotes[i].auth) /\ ~Hindered(config.remotes[i], {}, readable)
    BY DEF Accepts, Validates, ValidRemote
  <2>3. /\ auth.basic = config.remotes[i].auth.basic
        /\ auth.authorization = config.remotes[i].auth.authorization
        /\ auth.token = config.remotes[i].auth.token /\ auth.token_file = Unset
        /\ auth["basic"] = config.remotes[i].auth["basic"]
        /\ auth["authorization"] = config.remotes[i].auth["authorization"]
        /\ auth["token"] = config.remotes[i].auth["token"]
    BY <2>1 DEF Auths
  <2> HIDE DEF auth
  <2>4. ValidAuth(auth)
    <3>1. {source \in {"basic", "authorization", "token"} : IsSet(auth[source])}
            = {source \in {"basic", "authorization", "token"} :
                 IsSet(config.remotes[i].auth[source])}
      BY <2>3
    <3> QED
      BY <2>2, <2>3, <3>1 DEF ValidAuth, Exclusive
  <2>5. SecretFiles(auth) \subseteq readable
    <3>1. SecretFiles(config.remotes[i].auth) \subseteq readable
      BY <2>2 DEF Hindered
    <3>2. SecretFiles(auth) \subseteq SecretFiles(config.remotes[i].auth)
      BY <2>3 DEF SecretFiles, IsSet
    <3> QED
      BY <3>1, <3>2
  <2>6. ClientBuilds(config.remotes[i].tls, readable)
    BY <2>2 DEF Hindered, ClientBuilds, CaFile
  <2> QED
    BY <2>1, <2>4, <2>5, <2>6, AcceptedResolves DEF EndpointBuilds, auth
<1>2. Starts(config, readable)
  BY <1>1 DEF Starts
<1>3. ASSUME NEW i \in jobs
      PROVE  /\ JobStarts(config.jobs[i], readable)
             /\ Ticks(Interval(config.jobs[i], config.global))
             /\ \A r \in config.jobs[i].refresh : Ticks(r)
  <2>1. ValidAuth(config.jobs[i].auth) /\ config.jobs[i].auth \in Auths(Texts)
    BY DEF Accepts, Validates, ValidJob
  <2>2. SecretFiles(config.jobs[i].auth) \subseteq readable
    BY DEF Hindered
  <2>3. Resolve(config.jobs[i].auth, readable) # Unusable
    BY <2>1, <2>2, AcceptedResolves
  <2>4. ClientBuilds(config.jobs[i].tls, readable)
    BY DEF Hindered, ClientBuilds, CaFile
  <2>5. /\ Ticks(Interval(config.jobs[i], config.global))
        /\ \A r \in config.jobs[i].refresh : Ticks(r)
    BY DEF Hindered, Ticks
  <2> QED
    BY <2>3, <2>4, <2>5 DEF JobStarts
<1>4. \A i \in jobs : <<"loops", i>> \in alive /\ <<"files", i>> \in alive
  BY <1>2, <1>3 DEF Alive
<1>5. \A i \in DOMAIN config.remotes :
        Ticks(config.remotes[i].queue.batch_send_deadline) => <<"sender", i>> \in alive
  BY <1>2 DEF Alive
<1> HIDE DEF alive, jobs
<1> QED
  BY <1>4, <1>5 DEF Ticks

-----------------------------------------------------------------------------
\* The values a fold from the left goes through: h[i] is what it has come to
\* after the first i elements.  Here the sum of the lengths of chunks.
LEMMA WholeSteps ==
  ASSUME NEW n \in Nat, NEW chunks \in [1 .. n -> Nat]
  PROVE  \E h \in [0 .. n -> Nat] :
           /\ h[0] = 0
           /\ \A i \in 1 .. n : h[i] = h[i - 1] + chunks[i]
           /\ h[n] = FoldLeft(LAMBDA sum, chunk : sum + chunk, 0, chunks)
<1> DEFINE Follows(f) == f = [s \in SUBSET (1 .. n) |->
                                IF s = {} THEN 0 ELSE f[s \ {Max(s)}] + chunks[Max(s)]]
           f == CHOOSE f : Follows(f)
           h == [i \in 0 .. n |-> f[1 .. i]]
<1>1. FoldLeft(LAMBDA sum, chunk : sum + chunk, 0, chunks) = f[1 .. n]
  <2>1. DOMAIN chunks = 1 .. n
    OBVIOUS
  <2> QED
    BY <2>1 DEF FoldLeft, MapThenFoldSet
<1>2. \E g : Follows(g)
  <2> DEFINE step == [i \in 1 .. n |-> [a \in Nat |-> a + chunks[i]]]
  <2>1. step \in [1 .. n -> [Nat -> Nat]] /\ 0 \in Nat
    OBVIOUS
  <2> HIDE DEF step
  <2>2. PICK g \in [SUBSET (1 .. n) -> Nat] : GoesBy(g, n, 0, step)
    <3> HIDE DEF f, h, Follows
    <3> QED
      BY <2>1, FoldIsDefined
  <2>3. Follows(g)
    BY <2>2 DEF step, GoesBy
  <2> QED
    BY <2>3
<1>3. Follows(f)
  <2> HIDE DEF Follows
  <2> QED
    BY <1>2
<1> HIDE DEF f
<1>4. h[0] = 0 /\ \A i \in 1 .. n : h[i] = h[i - 1] + chunks[i]
  <2>1. f[{}] = 0
    BY <1>3
  <2>2. ASSUME NEW i \in 1 .. n
        PROVE  f[1 .. i] = f[1 .. i - 1] + chunks[i]
    <3>1. /\ 1 .. i \in SUBSET (1 .. n) /\ 1 .. i # {}
          /\ Max(1 .. i) = i /\ (1 .. i) \ {i} = 1 .. i - 1
      BY UpTo
    <3>2. f[1 .. i] = f[(1 .. i) \ {Max(1 .. i)}] + chunks[Max(1 .. i)]
      BY <1>3, <3>1
    <3> QED
      BY <3>1, <3>2
  <2> QED
    BY <2>1, <2>2
<1>5. h \in [0 .. n -> Nat]
  <2> DEFINE S == {i \in 0 .. n : h[i] \in Nat}
  <2>1. 0 \in S /\ \A i \in 1 .. n : i - 1 \in S => i \in S
    <3> HIDE DEF h
    <3> QED
      BY <1>4
  <2> HIDE DEF S
  <2>2. 0 .. n \subseteq S
    BY <2>1, BoundedInduction
  <2> QED
    BY <2>2 DEF S
<1>6. h[n] = f[1 .. n]
  OBVIOUS
<1> HIDE DEF h
<1> QED
  BY <1>1, <1>4, <1>5, <1>6

\* The same of what is buffered: it grows by the chunks until one is refused.
LEMMA BodySteps ==
  ASSUME NEW n \in Nat, NEW chunks \in [1 .. n -> Nat], NEW limit \in Nat, Unusable \notin Nat
  PROVE  \E h \in [0 .. n -> Nat \cup {Unusable}] :
           /\ h[0] = 0
           /\ \A i \in 1 .. n : h[i] = ExtendBody(h[i - 1], chunks[i], limit)
           /\ h[n] = FoldLeft(LAMBDA body, chunk : ExtendBody(body, chunk, limit), 0, chunks)
<1> DEFINE Follows(f) == f = [s \in SUBSET (1 .. n) |->
                                IF s = {} THEN 0
                                ELSE ExtendBody(f[s \ {Max(s)}], chunks[Max(s)], limit)]
           f == CHOOSE f : Follows(f)
           h == [i \in 0 .. n |-> f[1 .. i]]
           Lengthy == Nat \cup {Unusable}
<1>1. FoldLeft(LAMBDA body, chunk : ExtendBody(body, chunk, limit), 0, chunks) = f[1 .. n]
  <2>1. DOMAIN chunks = 1 .. n
    OBVIOUS
  <2> QED
    BY <2>1 DEF FoldLeft, MapThenFoldSet
<1>2. \A body \in Lengthy, i \in 1 .. n : ExtendBody(body, chunks[i], limit) \in Lengthy
  BY DEF ExtendBody
<1>3. \E g : Follows(g)
  <2> DEFINE step == [i \in 1 .. n |-> [body \in Lengthy |-> ExtendBody(body, chunks[i], limit)]]
  <2>1. step \in [1 .. n -> [Lengthy -> Lengthy]] /\ 0 \in Lengthy
    BY <1>2
  <2> HIDE DEF step, Lengthy
  <2>2. PICK g \in [SUBSET (1 .. n) -> Lengthy] : GoesBy(g, n, 0, step)
    <3> HIDE DEF f, h, Follows
    <3> QED
      BY <2>1, FoldIsDefined
  <2>3. Follows(g)
    BY <2>2 DEF step, GoesBy
  <2> QED
    BY <2>3
<1>4. Follows(f)
  <2> HIDE DEF Follows
  <2> QED
    BY <1>3
<1> HIDE DEF f, Lengthy
<1>5. h[0] = 0 /\ \A i \in 1 .. n : h[i] = ExtendBody(h[i - 1], chunks[i], limit)
  <2>1. f[{}] = 0
    BY <1>4
  <2>2. ASSUME NEW i \in 1 .. n
        PROVE  f[1 .. i] = ExtendBody(f[1 .. i - 1], chunks[i], limit)
    <3>1. /\ 1 .. i \in SUBSET (1 .. n) /\ 1 .. i # {}
          /\ Max(1 .. i) = i /\ (1 .. i) \ {i} = 1 .. i - 1
      BY UpTo
    <3>2. f[1 .. i] = ExtendBody(f[(1 .. i) \ {Max(1 .. i)}], chunks[Max(1 .. i)], limit)
      BY <1>4, <3>1
    <3> QED
      BY <3>1, <3>2
  <2> QED
    BY <2>1, <2>2
<1>6. h \in [0 .. n -> Lengthy]
  <2> DEFINE S == {i \in 0 .. n : h[i] \in Lengthy}
  <2>1. 0 \in S /\ \A i \in 1 .. n : i - 1 \in S => i \in S
    <3>1. 0 \in Lengthy
      BY DEF Lengthy
    <3> HIDE DEF h
    <3> QED
      BY <1>2, <1>5, <3>1
  <2> HIDE DEF S
  <2>2. 0 .. n \subseteq S
    BY <2>1, BoundedInduction
  <2> QED
    BY <2>2 DEF S
<1>7. h[n] = f[1 .. n]
  OBVIOUS
<1> HIDE DEF h
<1> QED
  BY <1>1, <1>5, <1>6, <1>7 DEF Lengthy

\* No more is ever buffered or allocated than the limit, and a body within it is
\* read whole (read_body): for every limit, whatever length is announced and in
\* however many chunks of whatever lengths the body arrives.
THEOREM BodyIsBounded ==
  ASSUME NEW announced \in Nat \cup {Unset}, NEW chunks \in Seq(Nat), NEW limit \in Nat
  PROVE  BodyBounded(announced, chunks, limit)
<1> DEFINE n == Len(chunks)
           whole == FoldLeft(LAMBDA sum, chunk : sum + chunk, 0, chunks)
           read == FoldLeft(LAMBDA body, chunk : ExtendBody(body, chunk, limit), 0, chunks)
<1>1. n \in Nat /\ chunks \in [1 .. n -> Nat] /\ Unusable \notin Nat
  BY PipelineAssumption DEF PipelineAssumption
<1>2. PICK sum \in [0 .. n -> Nat] :
        /\ sum[0] = 0
        /\ \A i \in 1 .. n : sum[i] = sum[i - 1] + chunks[i]
        /\ sum[n] = whole
  <2> HIDE DEF n
  <2> QED  BY <1>1, WholeSteps
<1>3. PICK body \in [0 .. n -> Nat \cup {Unusable}] :
        /\ body[0] = 0
        /\ \A i \in 1 .. n : body[i] = ExtendBody(body[i - 1], chunks[i], limit)
        /\ body[n] = read
  <2> HIDE DEF n
  <2> QED  BY <1>1, BodySteps, ZenonT(30)
<1> HIDE DEF whole, read, n
<1>4. read = IF limit = 0 \/ whole <= limit THEN whole ELSE Unusable
  <2> DEFINE S == {i \in 0 .. n : body[i] = IF limit = 0 \/ sum[i] <= limit THEN sum[i]
                                            ELSE Unusable}
  <2>1. 0 \in S
    BY <1>1, <1>2, <1>3
  <2>2. ASSUME NEW i \in 1 .. n, i - 1 \in S
        PROVE  i \in S
    <3>1. /\ sum[i] = sum[i - 1] + chunks[i] /\ sum[i - 1] \in Nat /\ chunks[i] \in Nat
          /\ body[i] = ExtendBody(body[i - 1], chunks[i], limit)
          /\ i \in 0 .. n /\ i - 1 \in 0 .. n
      BY <1>1, <1>2, <1>3
    <3> QED
      BY <1>1, <2>2, <3>1, SMTT(30) DEF ExtendBody
  <2> HIDE DEF S
  <2>3. n \in Nat /\ \A i \in 1 .. n : i - 1 \in S => i \in S
    BY <1>1, <2>2
  <2>4. 0 .. n \subseteq S
    BY <2>1, <2>3, BoundedInduction
  <2>5. n \in S
    BY <2>3, <2>4
  <2> QED
    BY <1>2, <1>3, <2>5 DEF S
<1>5. whole \in Nat
  BY <1>1, <1>2
<1>6. /\ Capacity(announced, limit) <= MaxPreallocated
      /\ limit > 0 => Capacity(announced, limit) <= limit
  <2> DEFINE sizes == {Or(announced, DefaultCapacity), MaxPreallocated}
                        \cup (IF limit = 0 THEN {} ELSE {limit})
  <2>1. sizes \in SUBSET Nat /\ sizes # {} /\ MaxPreallocated \in sizes
        /\ (limit > 0 => limit \in sizes)
    BY PipelineAssumption DEF PipelineAssumption, Or, IsSet
  <2> HIDE DEF sizes
  <2>2. \A size \in sizes : Min(sizes) <= size
    BY <2>1, MinIsMember
  <2>3. Capacity(announced, limit) = Min(sizes)
    BY DEF Capacity, sizes
  <2> QED
    BY <2>1, <2>2, <2>3
<1>7. ReadBody(announced, chunks, limit)
        = IF limit = 0 \/ (whole <= limit /\ (IsSet(announced) => announced <= limit))
          THEN whole ELSE Unusable
  <2>1. ReadBody(announced, chunks, limit)
          = IF limit > 0 /\ IsSet(announced) /\ announced > limit THEN Unusable ELSE read
    BY DEF ReadBody, read
  <2> QED
    BY <1>4, <1>5, <2>1 DEF IsSet
<1> QED
  BY <1>6, <1>7 DEF BodyBounded, whole

-----------------------------------------------------------------------------
\* The parameter with a key that only one has.
LEMMA TheParameter ==
  ASSUME NEW content, NEW key, Len(content.params) \in Nat,
         NEW i \in 1 .. Len(content.params), content.params[i].key = key,
         \A j \in 1 .. Len(content.params) : content.params[j].key = key => j = i
  PROVE  ParameterOf(content, key) = content.params[i].value
<1> DEFINE found == {j \in 1 .. Len(content.params) : content.params[j].key = key}
<1>1. found = {i} /\ i \in Nat /\ i # 0
  OBVIOUS
<1>2. Max(found) = i
  <2>1. {i} \in SUBSET (1 .. i) /\ i \in {i}
    BY <1>1
  <2> QED
    BY <1>1, <2>1, MaxOfTop
<1>3. SelectLastInSeq(content.params, LAMBDA p : p.key = key) = IF found # {} THEN Max(found) ELSE 0
  BY DEF SelectLastInSeq
<1>4. SelectLastInSeq(content.params, LAMBDA p : p.key = key) = i
  <2> HIDE DEF found
  <2> QED
    BY <1>1, <1>2, <1>3
<1> QED
  BY <1>1, <1>4 DEF ParameterOf

\* The type of the protobuf format is told by both of its parameters, whatever
\* charset is behind them.
LEMMA ProtobufRead ==
  ASSUME NEW content, NEW charset,
         content.media = "application/vnd.google.protobuf",
         \/ Len(content.params) = 2
         \/ Len(content.params) = 3 /\ content.params[3] = Parameter("charset", charset),
         content.params[1] = Parameter("proto", "io.prometheus.client.MetricFamily"),
         content.params[2] = Parameter("encoding", "delimited"),
         IsSet(content)
  PROVE  BodyFormat(content) = "Protobuf"
<1> DEFINE params == content.params
<1>1. /\ Len(params) = 2 \/ (Len(params) = 3 /\ params[3] = Parameter("charset", charset))
      /\ params[1] = Parameter("proto", "io.prometheus.client.MetricFamily")
      /\ params[2] = Parameter("encoding", "delimited")
  OBVIOUS
<1> HIDE DEF params
<1>2. \A j \in 1 .. Len(params) : j = 1 \/ j = 2 \/ (Len(params) = 3 /\ j = 3)
  <2>1. CASE Len(params) = 2
    BY <2>1
  <2>2. CASE Len(params) = 3
    BY <2>2
  <2> QED
    BY <1>1, <2>1, <2>2
<1>3. /\ params[1].key = "proto" /\ params[1].value = "io.prometheus.client.MetricFamily"
      /\ params[2].key = "encoding" /\ params[2].value = "delimited"
      /\ Len(params) = 3 => params[3].key = "charset"
  BY <1>1 DEF Parameter
<1>4. \A j \in 1 .. Len(params) :
        /\ params[j].key = "proto" => j = 1
        /\ params[j].key = "encoding" => j = 2
  BY <1>2, <1>3
<1>5. 1 \in 1 .. Len(params) /\ 2 \in 1 .. Len(params)
  BY <1>1
<1>6. ParameterOf(content, "proto") = params[1].value
  BY <1>1, <1>3, <1>4, <1>5, TheParameter DEF params
<1>7. ParameterOf(content, "encoding") = params[2].value
  BY <1>1, <1>3, <1>4, <1>5, TheParameter DEF params
<1> QED
  BY <1>3, <1>6, <1>7 DEF BodyFormat

\* Validation leaves at most both formats that are supported.
LEMMA TwoFormats ==
  ASSUME NEW protocols \in Seq(ProtocolNames), ValidProtocols(protocols)
  PROVE  Len(protocols) = 1 \/ Len(protocols) = 2
<1>1. \A i \in 1 .. Len(protocols) :
        protocols[i] = "PrometheusProto" \/ protocols[i] = "PrometheusText0.0.4"
  BY DEF ValidProtocols, IsSupported
<1>2. \A i, j \in 1 .. Len(protocols) : protocols[i] = protocols[j] => i = j
  BY DEF ValidProtocols, IsInjective
<1>3. ~(Len(protocols) > 2)
  <2>1. SUFFICES ASSUME Len(protocols) > 2 PROVE FALSE
    OBVIOUS
  <2>2. 1 \in 1 .. Len(protocols) /\ 2 \in 1 .. Len(protocols) /\ 3 \in 1 .. Len(protocols)
    BY <2>1
  <2> QED
    BY <1>1, <1>2, <2>2
<1>4. Len(protocols) \in Nat /\ Len(protocols) # 0
  <2>1. protocols # <<>>
    BY DEF ValidProtocols
  <2> QED
    BY <2>1, NoElements
<1> DEFINE len == Len(protocols)
<1>5. len \in Nat /\ len # 0 /\ ~(len > 2)
  BY <1>3, <1>4
<1> HIDE DEF len
<1>6. len = 1 \/ len = 2
  BY <1>5
<1> QED
  BY <1>6 DEF len

\* A setting of formats: none, or a list that validation accepts.
AcceptedProtocols(setting) ==
  IsSet(setting) => setting \in Seq(ProtocolNames) /\ ValidProtocols(setting)

\* The formats of a job are accepted ones, its own or those of all jobs or those
\* that follow from its histograms.
LEMMA ProtocolsAccepted ==
  ASSUME NEW job, NEW global,
         AcceptedProtocols(job.protocols), AcceptedProtocols(global.protocols)
  PROVE  /\ Protocols(job, global) \in Seq(ProtocolNames)
         /\ ValidProtocols(Protocols(job, global))
<1>1. \A protocols \in {<<"PrometheusProto", "PrometheusText0.0.4">>, <<"PrometheusText0.0.4">>} :
        protocols \in Seq(ProtocolNames) /\ ValidProtocols(protocols)
  <2> DEFINE both == <<"PrometheusProto", "PrometheusText0.0.4">>
             text == <<"PrometheusText0.0.4">>
  <2>1. /\ both \in Seq(ProtocolNames) /\ Len(both) = 2
        /\ both[1] = "PrometheusProto" /\ both[2] = "PrometheusText0.0.4"
        /\ text \in Seq(ProtocolNames) /\ Len(text) = 1 /\ text[1] = "PrometheusText0.0.4"
    BY DEF ProtocolNames
  <2> HIDE DEF both, text
  <2>2. /\ DOMAIN both = {1, 2} /\ DOMAIN text = {1}
        /\ both # <<>> /\ text # <<>>
    <3>1. \A s \in Seq(ProtocolNames) : DOMAIN s = 1 .. Len(s) /\ (s = <<>> => Len(s) = 0)
      OBVIOUS
    <3>2. 1 .. 2 = {1, 2} /\ 1 .. 1 = {1}
      OBVIOUS
    <3>3. DOMAIN both = 1 .. 2 /\ DOMAIN text = 1 .. 1
      BY <2>1, <3>1
    <3>4. both # <<>>
      BY <2>1, <3>1, 2 # 0, Zenon
    <3>5. text # <<>>
      BY <2>1, <3>1, 1 # 0, Zenon
    <3> QED
      BY <3>2, <3>3, <3>4, <3>5
  <2>3. ValidProtocols(both)
    BY <2>1, <2>2 DEF ValidProtocols, IsSupported, IsInjective
  <2>4. ValidProtocols(text)
    BY <2>1, <2>2 DEF ValidProtocols, IsSupported, IsInjective
  <2> QED
    BY <2>1, <2>3, <2>4 DEF both, text
<1> QED
  BY <1>1 DEF Protocols, Or, AcceptedProtocols

\* Every format that is offered is read by its parser when a target answers with
\* it (accept_header, BodyFormat::from_content_type), and the offers are in the
\* order of preference: for every setting of the formats that is accepted.
THEOREM OffersAreUnderstood ==
  ASSUME NEW job, NEW global,
         AcceptedProtocols(job.protocols), AcceptedProtocols(global.protocols),
         \A media, params : IsSet(ContentType(media, params))
  PROVE  OffersUnderstood(job, global)
<1> DEFINE protocols == Protocols(job, global)
           header == AcceptHeader(protocols)
           WithCharset(content) ==
             [content EXCEPT !.params = Append(@, Parameter("charset", "utf-8"))]
           Parser(protocol) == IF protocol = "PrometheusProto" THEN "Protobuf" ELSE "Text"
           last == Len(protocols) + 1
<1>1. protocols \in Seq(ProtocolNames) /\ ValidProtocols(protocols)
  BY ProtocolsAccepted
<1>2. Len(protocols) = 1 \/ Len(protocols) = 2
  BY <1>1, TwoFormats
<1>3. NativeHistograms(job, global) /\ ~IsSet(job.protocols) /\ ~IsSet(global.protocols)
        => protocols[1] = "PrometheusProto"
  BY DEF Protocols, Or
<1>4. IsSet(job.protocols) => protocols = job.protocols
  BY DEF Protocols, Or
<1> HIDE DEF protocols
<1>5. /\ DOMAIN header = 1 .. last /\ Len(header) = last /\ last \in Nat
      /\ \A i \in 1 .. last :
           /\ header[i].type = IF i <= Len(protocols) THEN MediaType(protocols[i]) ELSE AnyType
           /\ header[i].weight = IF FirstWeight >= i THEN FirstWeight + 1 - i ELSE 0
  BY <1>1 DEF AcceptHeader
<1> HIDE DEF header
<1>6. /\ \A i, j \in 1 .. last : i < j => header[i].weight > header[j].weight
      /\ header[last].weight > 0
  BY <1>2, <1>5, PipelineAssumption DEF PipelineAssumption
<1>7. header[last].type = AnyType
  BY <1>1, <1>5
<1>8. ASSUME NEW i \in 1 .. Len(protocols)
      PROVE  /\ IsSupported(protocols[i])
             /\ MediaType(protocols[i]).media # AnyType.media
             /\ BodyFormat(MediaType(protocols[i])) = Parser(protocols[i])
             /\ BodyFormat(WithCharset(MediaType(protocols[i]))) = Parser(protocols[i])
  <2>1. IsSupported(protocols[i])
    BY <1>1 DEF ValidProtocols
  <2>2. CASE protocols[i] = "PrometheusProto"
    <3> DEFINE type == MediaType(protocols[i])
               proto == Parameter("proto", "io.prometheus.client.MetricFamily")
               encoding == Parameter("encoding", "delimited")
               utf8 == Parameter("charset", "utf-8")
               charset == WithCharset(type)
    <3>1. type = [media |-> "application/vnd.google.protobuf", params |-> <<proto, encoding>>]
      BY <2>2 DEF MediaType, ContentType
    <3>2. charset = [media |-> "application/vnd.google.protobuf",
                     params |-> Append(<<proto, encoding>>, utf8)]
      <4> HIDE DEF type
      <4> QED
        BY <3>1
    <3>3. IsSet(type) /\ IsSet(charset)
      BY <3>1, <3>2 DEF ContentType
    <3> HIDE DEF type, charset
    <3>4. /\ Len(type.params) = 2 /\ type.params[1] = proto /\ type.params[2] = encoding
          /\ Len(charset.params) = 3 /\ charset.params[3] = utf8
          /\ charset.params[1] = proto /\ charset.params[2] = encoding
      <4> DEFINE both == <<proto, encoding>>
                 Parameters == {proto, encoding, utf8}
      <4>1. Len(both) = 2 /\ both[1] = proto /\ both[2] = encoding
        OBVIOUS
      <4>2. both \in Seq(Parameters) /\ utf8 \in Parameters
        OBVIOUS
      <4> HIDE DEF both, Parameters
      <4>4. /\ Len(Append(both, utf8)) = Len(both) + 1
            /\ Append(both, utf8)[Len(both) + 1] = utf8
            /\ \A k \in 1 .. Len(both) : Append(both, utf8)[k] = both[k]
        BY <4>2, Appended
      <4>3. type.params = both /\ charset.params = Append(both, utf8)
        BY <3>1, <3>2 DEF both
      <4> QED
        BY <4>1, <4>3, <4>4
    <3>5. BodyFormat(type) = "Protobuf"
      BY <3>1, <3>3, <3>4, ProtobufRead
    <3>6. BodyFormat(charset) = "Protobuf"
      BY <3>2, <3>3, <3>4, ProtobufRead
    <3> QED
      BY <2>1, <2>2, <3>1, <3>5, <3>6 DEF type, charset, AnyType, ContentType
  <2>3. CASE protocols[i] = "PrometheusText0.0.4"
    <3>1. MediaType(protocols[i]).media = "text/plain"
      BY <2>3 DEF MediaType, ContentType
    <3>2. WithCharset(MediaType(protocols[i])).media = "text/plain"
      BY <2>3 DEF MediaType, ContentType
    <3> QED
      BY <2>1, <2>3, <3>1, <3>2 DEF BodyFormat, AnyType, ContentType
  <2> QED
    BY <2>1, <2>2, <2>3 DEF IsSupported
<1>9. IsInjective([i \in DOMAIN header |-> header[i].type])
  <2>1. \A i, j \in 1 .. Len(protocols) : protocols[i] = protocols[j] => i = j
    BY <1>1 DEF ValidProtocols, IsInjective
  <2>2. \A i, j \in 1 .. Len(protocols) :
          MediaType(protocols[i]) = MediaType(protocols[j]) => protocols[i] = protocols[j]
    BY <1>8 DEF MediaType, ContentType, IsSupported
  <2>3. \A i \in 1 .. Len(protocols) : MediaType(protocols[i]) # AnyType
    BY <1>8
  <2>4. \A i \in 1 .. last : i \in 1 .. Len(protocols) \/ i = last
    BY <1>2
  <2>5. \A i \in 1 .. Len(protocols) : header[i].type = MediaType(protocols[i])
    BY <1>1, <1>5
  <2>6. ASSUME NEW i \in 1 .. last, NEW j \in 1 .. last, header[i].type = header[j].type
        PROVE  i = j
    BY <1>7, <2>1, <2>2, <2>3, <2>4, <2>5, <2>6
  <2> QED
    BY <1>5, <2>6 DEF IsInjective
<1>10. protocols # <<>> /\ DOMAIN protocols = 1 .. Len(protocols)
  BY <1>1, <1>2
<1> QED
  BY <1>3, <1>4, <1>5, <1>6, <1>7, <1>8, <1>9, <1>10 DEF OffersUnderstood, header, protocols

-----------------------------------------------------------------------------
\* Two sequences one behind the other have the elements of both.
LEMMA ElementsOfBoth ==
  ASSUME NEW S, NEW s \in Seq(S), NEW t \in Seq(S)
  PROVE  \A x : x \in ToSet(s \o t) <=> x \in ToSet(s) \/ x \in ToSet(t)
<1>1. /\ s \o t \in Seq(S) /\ Len(s \o t) = Len(s) + Len(t)
      /\ \A i \in 1 .. Len(s) : (s \o t)[i] = s[i]
      /\ \A i \in 1 .. Len(t) : (s \o t)[Len(s) + i] = t[i]
      /\ Len(s) \in Nat /\ Len(t) \in Nat
  OBVIOUS
<1>2. \A i \in 1 .. Len(s \o t) : i \in 1 .. Len(s) \/ i - Len(s) \in 1 .. Len(t)
  BY <1>1
<1>3. \A i \in 1 .. Len(s) : i \in 1 .. Len(s \o t)
  BY <1>1
<1>4. \A i \in 1 .. Len(t) : Len(s) + i \in 1 .. Len(s \o t)
  BY <1>1
<1>5. \A i \in 1 .. Len(s \o t) : i - Len(s) \in 1 .. Len(t) => (s \o t)[i] = t[i - Len(s)]
  BY <1>1
<1>6. DOMAIN (s \o t) = 1 .. Len(s \o t) /\ DOMAIN s = 1 .. Len(s) /\ DOMAIN t = 1 .. Len(t)
  BY <1>1
<1> DEFINE both == s \o t
<1> HIDE DEF both
<1>7. ASSUME NEW x, x \in ToSet(both)
      PROVE  x \in ToSet(s) \/ x \in ToSet(t)
  <2>1. PICK i \in 1 .. Len(both) : x = both[i]
    BY <1>6, <1>7 DEF ToSet, both
  <2>2. CASE i \in 1 .. Len(s)
    BY <1>1, <1>6, <2>1, <2>2 DEF ToSet, both
  <2>3. CASE i - Len(s) \in 1 .. Len(t)
    BY <1>5, <1>6, <2>1, <2>3 DEF ToSet, both
  <2> QED
    BY <1>2, <2>1, <2>2, <2>3 DEF both
<1>8. ASSUME NEW x, x \in ToSet(s) PROVE x \in ToSet(both)
  <2>1. PICK i \in 1 .. Len(s) : x = s[i]
    BY <1>6, <1>8 DEF ToSet
  <2>2. both[i] = x /\ i \in DOMAIN both
    BY <1>1, <1>3, <1>6, <2>1 DEF both
  <2> QED
    BY <2>2 DEF ToSet
<1>9. ASSUME NEW x, x \in ToSet(t) PROVE x \in ToSet(both)
  <2>1. PICK i \in 1 .. Len(t) : x = t[i]
    BY <1>6, <1>9 DEF ToSet
  <2>2. both[Len(s) + i] = x /\ Len(s) + i \in DOMAIN both
    BY <1>1, <1>4, <1>6, <2>1 DEF both
  <2> QED
    BY <2>2 DEF ToSet
<1> QED
  BY <1>7, <1>8, <1>9 DEF both

\* A sequence is one over its own elements.
LEMMA SequenceOfItsOwn ==
  ASSUME NEW S, NEW s \in Seq(S)
  PROVE  s \in Seq(ToSet(s))
  BY DEF ToSet

-----------------------------------------------------------------------------
\* A sequence of any elements.
IsASequence(s) == s \in Seq(ToSet(s))

\* FlattenSeq has the elements of its pieces and no others.
LEMMA ElementsOfFlat ==
  ASSUME NEW n \in Nat, NEW pieces, pieces = [i \in 1 .. n |-> pieces[i]],
         \A i \in 1 .. n : IsASequence(pieces[i])
  PROVE  /\ IsASequence(FlattenSeq(pieces))
         /\ \A x : x \in ToSet(FlattenSeq(pieces)) <=> \E i \in 1 .. n : x \in ToSet(pieces[i])
<1> DEFINE S == UNION {ToSet(pieces[i]) : i \in 1 .. n}
<1>1. pieces \in [1 .. n -> Seq(S)]
  <2>1. ASSUME NEW i \in 1 .. n
        PROVE  pieces[i] \in Seq(S)
    <3>1. pieces[i] \in Seq(ToSet(pieces[i])) /\ ToSet(pieces[i]) \subseteq S
      BY DEF IsASequence
    <3> HIDE DEF S
    <3> QED
      BY <3>1
  <2> HIDE DEF S
  <2> QED
    BY <2>1
<1> HIDE DEF S
<1>2. PICK h \in [0 .. n -> Seq(S)] :
        /\ h[0] = <<>>
        /\ \A i \in 1 .. n : h[i] = h[i - 1] \o pieces[i]
        /\ h[n] = FlattenSeq(pieces)
  BY <1>1, FlattenSteps
<1> DEFINE Has(i) == \A x : x \in ToSet(h[i]) <=> \E j \in 1 .. i : x \in ToSet(pieces[j])
           Done == {i \in 0 .. n : Has(i)}
<1>3. 0 \in Done
  BY <1>2 DEF ToSet
<1>4. ASSUME NEW i \in 1 .. n, i - 1 \in Done
      PROVE  i \in Done
  <2>1. h[i - 1] \in Seq(S) /\ pieces[i] \in Seq(S) /\ h[i] = h[i - 1] \o pieces[i]
    <3>1. i - 1 \in 0 .. n /\ i \in 1 .. n
      OBVIOUS
    <3> QED
      BY <1>1, <1>2, <3>1
  <2>2. \A x : x \in ToSet(h[i]) <=> x \in ToSet(h[i - 1]) \/ x \in ToSet(pieces[i])
    BY <2>1, ElementsOfBoth
  <2>3. Has(i - 1) /\ i \in 0 .. n
    BY <1>4
  <2>4. \A j : j \in 1 .. i <=> j \in 1 .. i - 1 \/ j = i
    OBVIOUS
  <2> QED
    BY <2>2, <2>3, <2>4
<1>5. n \in Done
  <2> HIDE DEF Done
  <2>1. \A i \in 1 .. n : i - 1 \in Done => i \in Done
    BY <1>4
  <2>2. 0 .. n \subseteq Done
    BY <1>3, <2>1, BoundedInduction
  <2> QED
    BY <2>2
<1>6. h[n] \in Seq(S)
  BY <1>2
<1> QED
  BY <1>2, <1>5, <1>6, SequenceOfItsOwn DEF IsASequence

-----------------------------------------------------------------------------
\* What is written down by position is a sequence.
LEMMA ByPosition ==
  ASSUME NEW n \in Nat, NEW s, s = [i \in 1 .. n |-> s[i]]
  PROVE  /\ IsASequence(s)
         /\ \A x : x \in ToSet(s) <=> \E i \in 1 .. n : x = s[i]
<1>1. DOMAIN s = 1 .. n
  OBVIOUS
<1>2. s \in [1 .. n -> ToSet(s)]
  BY <1>1 DEF ToSet
<1>3. s \in Seq(ToSet(s))
  BY <1>2
<1> QED
  BY <1>1, <1>3 DEF IsASequence, ToSet

\* The elements of a sequence are those at its positions.
LEMMA Positions ==
  ASSUME NEW s, IsASequence(s)
  PROVE  /\ Len(s) \in Nat /\ DOMAIN s = 1 .. Len(s)
         /\ \A x : x \in ToSet(s) <=> \E i \in 1 .. Len(s) : x = s[i]
<1>1. Len(s) \in Nat /\ DOMAIN s = 1 .. Len(s)
  BY DEF IsASequence
<1> QED
  BY <1>1 DEF ToSet

\* Pods and slices as the stores hold them: what they list is listed in sequences,
\* a declared port has a number, and an endpoint is not what stands for none.
IsAPod(pod) ==
  /\ IsASequence(pod.containers)
  /\ \A c \in ToSet(pod.containers) : IsASequence(c.ports) /\ Absent \notin ToSet(c.ports)
IsASlice(slice) ==
  /\ IsASequence(slice.ports) /\ IsASequence(slice.endpoints)
  /\ \A e \in ToSet(slice.endpoints) : e # Absent /\ IsASequence(e.addresses)

\* The targets of a container are at its ports or, if it has none, at the host.
LEMMA ContainerAddresses ==
  ASSUME NEW pod, NEW c, IsASequence(c.ports), NEW labels
  PROVE  /\ IsASequence(ContainerGroups(pod, c, labels))
         /\ \A g \in ToSet(ContainerGroups(pod, c, labels)) :
              \E port \in ToSet(c.ports) \cup {Absent} : g.address = Address(pod.ip, port)
<1> DEFINE Of(port) ==
             Group(Address(pod.ip, port), [labels EXCEPT !.container = c, !.port = port])
           listed == [i \in 1 .. Len(c.ports) |-> Of(c.ports[i])]
<1>1. Len(c.ports) \in Nat /\ DOMAIN c.ports = 1 .. Len(c.ports)
  BY Positions
<1>2. \A port : Of(port).address = Address(pod.ip, port)
  BY DEF Group
<1> HIDE DEF Of
<1>3. ContainerGroups(pod, c, labels) = IF c.ports = <<>> THEN <<Of(Absent)>> ELSE listed
  BY <1>1 DEF ContainerGroups, Of
<1>4. IsASequence(<<Of(Absent)>>) /\ ToSet(<<Of(Absent)>>) = {Of(Absent)}
  BY DEF IsASequence, ToSet
<1>5. /\ IsASequence(listed)
      /\ \A g : g \in ToSet(listed) <=> \E i \in 1 .. Len(c.ports) : g = Of(c.ports[i])
  <2>1. listed = [i \in 1 .. Len(c.ports) |-> listed[i]]
    OBVIOUS
  <2>2. /\ IsASequence(listed)
        /\ \A g : g \in ToSet(listed) <=> \E i \in 1 .. Len(c.ports) : g = listed[i]
    <3> HIDE DEF listed
    <3> QED
      BY <1>1, <2>1, ByPosition
  <2> QED
    BY <2>2
<1> HIDE DEF listed
<1>6. \A i \in 1 .. Len(c.ports) : c.ports[i] \in ToSet(c.ports)
  BY <1>1 DEF ToSet
<1> QED
  BY <1>2, <1>3, <1>4, <1>5, <1>6

\* The targets of a pod are at its address and at the ports it declares.
LEMMA PodAddresses ==
  ASSUME NEW pod, IsAPod(pod), NEW address \in Addresses(PodGroups(pod, NoStore)),
         address.port # Absent
  PROVE  /\ pod.ip # Absent /\ address = Address(pod.ip, address.port)
         /\ \E c \in ToSet(pod.containers) : address.port \in ToSet(c.ports)
<1> DEFINE n == Len(pod.containers)
           labels == [NoLabels EXCEPT !.pod = pod, !.node = NodeLabels(NoStore, pod.node)]
           pieces == [i \in 1 .. n |-> ContainerGroups(pod, pod.containers[i], labels)]
           groups == FlattenSeq(pieces)
<1>1. n \in Nat /\ DOMAIN pod.containers = 1 .. n
  BY Positions DEF IsAPod
<1>2. \A i \in 1 .. n : pod.containers[i] \in ToSet(pod.containers)
  BY <1>1 DEF ToSet
<1>3. PodGroups(pod, NoStore) = IF pod.ip = Absent THEN <<>> ELSE groups
  BY <1>1 DEF PodGroups, Admitted
<1> HIDE DEF labels, n
<1>4. \A i \in 1 .. n :
        /\ IsASequence(pieces[i])
        /\ \A g \in ToSet(pieces[i]) :
             \E port \in ToSet(pod.containers[i].ports) \cup {Absent} :
               g.address = Address(pod.ip, port)
  BY <1>2, ContainerAddresses DEF IsAPod
<1>5. pieces = [i \in 1 .. n |-> pieces[i]]
  OBVIOUS
<1> HIDE DEF pieces
<1>6. /\ IsASequence(groups)
      /\ \A g : g \in ToSet(groups) <=> \E i \in 1 .. n : g \in ToSet(pieces[i])
  BY <1>1, <1>4, <1>5, ElementsOfFlat
<1> HIDE DEF groups
<1>7. pod.ip # Absent
  BY <1>3 DEF Addresses
<1>8. PICK g \in ToSet(groups) : address = g.address
  BY <1>3, <1>7 DEF Addresses, ToSet
<1>9. PICK i \in 1 .. n : g \in ToSet(pieces[i])
  BY <1>6, <1>8
<1>10. PICK port \in ToSet(pod.containers[i].ports) \cup {Absent} :
         address = Address(pod.ip, port)
  BY <1>4, <1>8, <1>9
<1>11. address.port = port
  BY <1>10 DEF Address
<1> QED
  BY <1>2, <1>7, <1>10, <1>11

\* The groups of the endpoints of a slice: one for every endpoint, port and address.
LEMMA EndpointElements ==
  ASSUME NEW slice, IsASlice(slice), NEW labels, NEW pods, NEW nodes
  PROVE  /\ IsASequence(EndpointGroups(slice, labels, pods, nodes))
         /\ \A g : g \in ToSet(EndpointGroups(slice, labels, pods, nodes)) <=>
              \E e \in ToSet(slice.endpoints), port \in ToSet(slice.ports) :
                \E address \in ToSet(e.addresses) :
                  g = EndpointGroup(labels, address, e, port, pods, nodes)
<1> DEFINE n == Len(slice.endpoints)
           m == Len(slice.ports)
           E(i) == slice.endpoints[i]
           Of(i, p, a) == EndpointGroup(labels, E(i).addresses[a], E(i), slice.ports[p], pods, nodes)
           At(i, p) == [a \in 1 .. Len(E(i).addresses) |-> Of(i, p, a)]
           Row(i) == [p \in 1 .. m |-> At(i, p)]
           rows == [i \in 1 .. n |-> FlattenSeq(Row(i))]
<1>1. /\ n \in Nat /\ DOMAIN slice.endpoints = 1 .. n
      /\ m \in Nat /\ DOMAIN slice.ports = 1 .. m
      /\ \A e : e \in ToSet(slice.endpoints) <=> \E i \in 1 .. n : e = E(i)
      /\ \A port : port \in ToSet(slice.ports) <=> \E p \in 1 .. m : port = slice.ports[p]
  BY Positions DEF IsASlice
<1>2. ASSUME NEW i \in 1 .. n
      PROVE  /\ Len(E(i).addresses) \in Nat /\ DOMAIN E(i).addresses = 1 .. Len(E(i).addresses)
             /\ \A address : address \in ToSet(E(i).addresses) <=>
                  \E a \in 1 .. Len(E(i).addresses) : address = E(i).addresses[a]
  <2>1. IsASequence(E(i).addresses)
    BY <1>1 DEF IsASlice
  <2> QED
    BY <2>1, Positions
<1>3. EndpointGroups(slice, labels, pods, nodes) = FlattenSeq(rows)
  BY <1>1, <1>2 DEF EndpointGroups
<1> HIDE DEF n, m, E, Of
<1>4. ASSUME NEW i \in 1 .. n, NEW p \in 1 .. m
      PROVE  /\ IsASequence(At(i, p))
             /\ \A g : g \in ToSet(At(i, p)) <=>
                  \E a \in 1 .. Len(E(i).addresses) : g = Of(i, p, a)
  <2> DEFINE s == At(i, p)
  <2>1. s = [a \in 1 .. Len(E(i).addresses) |-> s[a]]
        /\ \A a \in 1 .. Len(E(i).addresses) : s[a] = Of(i, p, a)
    OBVIOUS
  <2> HIDE DEF s
  <2>2. /\ IsASequence(s)
        /\ \A g : g \in ToSet(s) <=> \E a \in 1 .. Len(E(i).addresses) : g = s[a]
    BY <1>2, <2>1, ByPosition
  <2> QED
    BY <2>1, <2>2 DEF s
<1> HIDE DEF At
<1>5. ASSUME NEW i \in 1 .. n
      PROVE  /\ IsASequence(FlattenSeq(Row(i)))
             /\ \A g : g \in ToSet(FlattenSeq(Row(i))) <=>
                  \E p \in 1 .. m : g \in ToSet(At(i, p))
  <2> DEFINE s == Row(i)
  <2>1. s = [p \in 1 .. m |-> s[p]] /\ \A p \in 1 .. m : s[p] = At(i, p)
    OBVIOUS
  <2>2. \A p \in 1 .. m : IsASequence(s[p])
    BY <1>4, <2>1
  <2> HIDE DEF s
  <2>3. /\ IsASequence(FlattenSeq(s))
        /\ \A g : g \in ToSet(FlattenSeq(s)) <=> \E p \in 1 .. m : g \in ToSet(s[p])
    BY <1>1, <2>1, <2>2, ElementsOfFlat
  <2> QED
    BY <2>1, <2>3 DEF s
<1> HIDE DEF Row
<1>6. rows = [i \in 1 .. n |-> rows[i]] /\ \A i \in 1 .. n : rows[i] = FlattenSeq(Row(i))
  OBVIOUS
<1> HIDE DEF rows
<1>7. \A i \in 1 .. n : IsASequence(rows[i])
  BY <1>5, <1>6
<1>8. /\ IsASequence(FlattenSeq(rows))
      /\ \A g : g \in ToSet(FlattenSeq(rows)) <=> \E i \in 1 .. n : g \in ToSet(rows[i])
  BY <1>1, <1>6, <1>7, ElementsOfFlat
<1>9. \A g : g \in ToSet(FlattenSeq(rows)) <=>
        \E i \in 1 .. n, p \in 1 .. m : \E a \in 1 .. Len(E(i).addresses) : g = Of(i, p, a)
  BY <1>4, <1>5, <1>6, <1>8
<1>10. \A g :
         (\E i \in 1 .. n, p \in 1 .. m : \E a \in 1 .. Len(E(i).addresses) : g = Of(i, p, a))
           <=> \E e \in ToSet(slice.endpoints), port \in ToSet(slice.ports) :
                 \E address \in ToSet(e.addresses) :
                   g = EndpointGroup(labels, address, e, port, pods, nodes)
  <2> TAKE g
  <2>1. ASSUME NEW i \in 1 .. n, NEW p \in 1 .. m, NEW a \in 1 .. Len(E(i).addresses),
               g = Of(i, p, a)
        PROVE  \E e \in ToSet(slice.endpoints), port \in ToSet(slice.ports) :
                 \E address \in ToSet(e.addresses) :
                   g = EndpointGroup(labels, address, e, port, pods, nodes)
    <3>1. /\ E(i) \in ToSet(slice.endpoints) /\ slice.ports[p] \in ToSet(slice.ports)
          /\ E(i).addresses[a] \in ToSet(E(i).addresses)
      BY <1>1, <1>2
    <3>2. g = EndpointGroup(labels, E(i).addresses[a], E(i), slice.ports[p], pods, nodes)
      BY <2>1 DEF Of
    <3> QED
      BY <3>1, <3>2
  <2>2. ASSUME NEW e \in ToSet(slice.endpoints), NEW port \in ToSet(slice.ports),
               NEW address \in ToSet(e.addresses),
               g = EndpointGroup(labels, address, e, port, pods, nodes)
        PROVE  \E i \in 1 .. n, p \in 1 .. m : \E a \in 1 .. Len(E(i).addresses) : g = Of(i, p, a)
    <3>1. PICK i \in 1 .. n, p \in 1 .. m : e = E(i) /\ port = slice.ports[p]
      BY <1>1
    <3>2. PICK a \in 1 .. Len(E(i).addresses) : address = E(i).addresses[a]
      BY <1>2, <3>1
    <3>3. g = Of(i, p, a)
      BY <2>2, <3>1, <3>2 DEF Of
    <3> QED
      BY <3>3
  <2> QED
    BY <2>1, <2>2
<1> QED
  BY <1>3, <1>8, <1>9, <1>10

-----------------------------------------------------------------------------
\* A target that is added for a pod: at a port of one of its containers that the
\* slice does not have.
AddedFor(g, slice, labels, pod) ==
  \E c \in ToSet(pod.containers) :
    \E port \in ToSet(c.ports) \ SeenPorts(slice) :
      g = Group(Address(pod.ip, port),
                [labels EXCEPT !.pod = pod, !.container = c, !.port = port])

\* The targets that are added for a pod with an address are those.
LEMMA AdditionalElements ==
  ASSUME NEW slice, NEW labels, NEW pod, IsAPod(pod)
  PROVE  /\ IsASequence(AdditionalGroups(slice, labels, pod))
         /\ \A g : g \in ToSet(AdditionalGroups(slice, labels, pod)) <=>
              pod.ip # Absent /\ AddedFor(g, slice, labels, pod)
<1> DEFINE n == Len(pod.containers)
           C(i) == pod.containers[i]
           Of(c, port) == Group(Address(pod.ip, port),
                                [labels EXCEPT !.pod = pod, !.container = c, !.port = port])
           At(i, p) == IF C(i).ports[p] \in SeenPorts(slice) THEN <<>>
                       ELSE <<Of(C(i), C(i).ports[p])>>
           Row(i) == [p \in 1 .. Len(C(i).ports) |-> At(i, p)]
           rows == [i \in 1 .. n |-> FlattenSeq(Row(i))]
<1>1. /\ n \in Nat /\ DOMAIN pod.containers = 1 .. n
      /\ \A c : c \in ToSet(pod.containers) <=> \E i \in 1 .. n : c = C(i)
  BY Positions DEF IsAPod
<1>2. ASSUME NEW i \in 1 .. n
      PROVE  /\ Len(C(i).ports) \in Nat /\ DOMAIN C(i).ports = 1 .. Len(C(i).ports)
             /\ \A port : port \in ToSet(C(i).ports) <=>
                  \E p \in 1 .. Len(C(i).ports) : port = C(i).ports[p]
  <2>1. IsASequence(C(i).ports)
    BY <1>1 DEF IsAPod
  <2> QED
    BY <2>1, Positions
<1>3. AdditionalGroups(slice, labels, pod) = IF pod.ip = Absent THEN <<>> ELSE FlattenSeq(rows)
  BY <1>1, <1>2 DEF AdditionalGroups
<1> HIDE DEF n, C, Of
<1>4. \A i, p :
        /\ IsASequence(At(i, p))
        /\ \A g : g \in ToSet(At(i, p)) <=>
             C(i).ports[p] \notin SeenPorts(slice) /\ g = Of(C(i), C(i).ports[p])
  <2>1. IsASequence(<<>>) /\ ToSet(<<>>) = {}
    BY DEF IsASequence, ToSet
  <2>2. \A x : IsASequence(<<x>>) /\ ToSet(<<x>>) = {x}
    BY DEF IsASequence, ToSet
  <2> QED
    BY <2>1, <2>2
<1> HIDE DEF At
<1>5. ASSUME NEW i \in 1 .. n
      PROVE  /\ IsASequence(FlattenSeq(Row(i)))
             /\ \A g : g \in ToSet(FlattenSeq(Row(i))) <=>
                  \E p \in 1 .. Len(C(i).ports) : g \in ToSet(At(i, p))
  <2> DEFINE s == Row(i)
  <2>1. s = [p \in 1 .. Len(C(i).ports) |-> s[p]]
        /\ \A p \in 1 .. Len(C(i).ports) : s[p] = At(i, p)
    OBVIOUS
  <2>2. \A p \in 1 .. Len(C(i).ports) : IsASequence(s[p])
    BY <1>4, <2>1
  <2> HIDE DEF s
  <2>3. /\ IsASequence(FlattenSeq(s))
        /\ \A g : g \in ToSet(FlattenSeq(s)) <=>
             \E p \in 1 .. Len(C(i).ports) : g \in ToSet(s[p])
    BY <1>2, <2>1, <2>2, ElementsOfFlat
  <2> QED
    BY <2>1, <2>3 DEF s
<1> HIDE DEF Row
<1>6. rows = [i \in 1 .. n |-> rows[i]] /\ \A i \in 1 .. n : rows[i] = FlattenSeq(Row(i))
  OBVIOUS
<1> HIDE DEF rows
<1>7. \A i \in 1 .. n : IsASequence(rows[i])
  BY <1>5, <1>6
<1>8. /\ IsASequence(FlattenSeq(rows))
      /\ \A g : g \in ToSet(FlattenSeq(rows)) <=> \E i \in 1 .. n : g \in ToSet(rows[i])
  BY <1>1, <1>6, <1>7, ElementsOfFlat
<1>9. \A g : g \in ToSet(FlattenSeq(rows)) <=>
        \E i \in 1 .. n : \E p \in 1 .. Len(C(i).ports) :
          C(i).ports[p] \notin SeenPorts(slice) /\ g = Of(C(i), C(i).ports[p])
  BY <1>4, <1>5, <1>6, <1>8
<1>10. \A g :
         (\E i \in 1 .. n : \E p \in 1 .. Len(C(i).ports) :
            C(i).ports[p] \notin SeenPorts(slice) /\ g = Of(C(i), C(i).ports[p]))
           <=> AddedFor(g, slice, labels, pod)
  <2> TAKE g
  <2>1. ASSUME NEW i \in 1 .. n, NEW p \in 1 .. Len(C(i).ports),
               C(i).ports[p] \notin SeenPorts(slice), g = Of(C(i), C(i).ports[p])
        PROVE  AddedFor(g, slice, labels, pod)
    <3>1. C(i) \in ToSet(pod.containers) /\ C(i).ports[p] \in ToSet(C(i).ports)
      BY <1>1, <1>2
    <3> QED
      BY <2>1, <3>1 DEF AddedFor, Of
  <2>2. ASSUME NEW c \in ToSet(pod.containers), NEW port \in ToSet(c.ports),
               port \notin SeenPorts(slice), g = Of(c, port)
        PROVE  \E i \in 1 .. n : \E p \in 1 .. Len(C(i).ports) :
                 C(i).ports[p] \notin SeenPorts(slice) /\ g = Of(C(i), C(i).ports[p])
    <3>1. PICK i \in 1 .. n : c = C(i)
      BY <1>1
    <3>2. PICK p \in 1 .. Len(C(i).ports) : port = C(i).ports[p]
      BY <1>2, <3>1
    <3> QED
      BY <2>2, <3>1, <3>2
  <2> QED
    BY <2>1, <2>2 DEF AddedFor, Of
<1>11. IsASequence(<<>>) /\ ToSet(<<>>) = {}
  BY DEF IsASequence, ToSet
<1> QED
  BY <1>3, <1>8, <1>9, <1>10, <1>11

\* A finite set written down as a sequence is there with all its elements.
LEMMA SetAsSequence ==
  ASSUME NEW S, IsFiniteSet(S)
  PROVE  /\ SetToSeq(S) \in [1 .. Cardinality(S) -> S] /\ Cardinality(S) \in Nat
         /\ \A x \in S : \E i \in 1 .. Cardinality(S) : x = SetToSeq(S)[i]
<1> DEFINE n == Cardinality(S)
           s == SetToSeq(S)
<1>1. n \in Nat /\ ExistsBijection(1 .. n, S)
  BY FS_CardinalityType
<1>2. PICK b \in Bijection(1 .. n, S) : TRUE
  BY <1>1 DEF ExistsBijection
<1>3. b \in [1 .. n -> S] /\ IsInjective(b)
  BY <1>2 DEF Bijection, Injection
<1>4. s \in [1 .. n -> S] /\ IsInjective(s)
  BY <1>3 DEF SetToSeq
<1>5. s \in Injection(1 .. n, S)
  BY <1>4 DEF Injection
<1>6. Cardinality(1 .. n) = n
  BY <1>1, FS_Interval
<1> HIDE DEF s
<1>7. s \in Surjection(1 .. n, S)
  BY <1>5, <1>6, FS_Injection
<1> QED
  BY <1>1, <1>4, <1>7 DEF Surjection, s

\* The labels of a slice, on which those of its targets are built.
SliceLabels(slice, services) ==
  [NoLabels EXCEPT !.service = IF slice.service \in services THEN slice.service ELSE Absent]

\* The targets of a slice are those of its endpoints and those that are added for
\* the pods that were joined.
LEMMA SliceElements ==
  ASSUME NEW slice, IsASlice(slice), NEW services, NEW pods, IsFiniteSet(DOMAIN pods),
         \A name \in DOMAIN pods : IsAPod(pods[name]), NEW nodes
  PROVE  LET labels == SliceLabels(slice, services)
         IN \A g : g \in ToSet(SliceGroups(slice, services, pods, nodes)) <=>
              \/ g \in ToSet(EndpointGroups(slice, labels, pods, nodes))
              \/ \E name \in JoinedPods(slice, pods) :
                   pods[name].ip # Absent /\ AddedFor(g, slice, labels, pods[name])
<1> DEFINE labels == SliceLabels(slice, services)
           Mates == JoinedPods(slice, pods)
           n == Cardinality(Mates)
           joined == SetToSeq(Mates)
           pieces == [i \in 1 .. n |-> AdditionalGroups(slice, labels, pods[joined[i]])]
           listed == EndpointGroups(slice, labels, pods, nodes)
<1>1. Mates \subseteq DOMAIN pods
  BY DEF JoinedPods
<1>2. IsFiniteSet(Mates)
  BY <1>1, FS_Subset
<1> HIDE DEF Mates
<1>3. /\ joined \in [1 .. n -> Mates] /\ n \in Nat
      /\ \A name \in Mates : \E i \in 1 .. n : name = joined[i]
  BY <1>2, SetAsSequence
<1>4. SliceGroups(slice, services, pods, nodes) = listed \o FlattenSeq(pieces)
  BY <1>3 DEF SliceGroups, SliceLabels, Mates
<1> HIDE DEF labels, joined, n
<1>5. \A i \in 1 .. n :
        /\ IsASequence(pieces[i])
        /\ \A g : g \in ToSet(pieces[i]) <=>
             pods[joined[i]].ip # Absent /\ AddedFor(g, slice, labels, pods[joined[i]])
  <2>1. ASSUME NEW i \in 1 .. n
        PROVE  IsAPod(pods[joined[i]]) /\ pieces[i] = AdditionalGroups(slice, labels, pods[joined[i]])
    BY <1>1, <1>3
  <2> HIDE DEF pieces
  <2> QED
    BY <2>1, AdditionalElements
<1>6. pieces = [i \in 1 .. n |-> pieces[i]]
  OBVIOUS
<1> HIDE DEF pieces
<1>7. /\ IsASequence(FlattenSeq(pieces))
      /\ \A g : g \in ToSet(FlattenSeq(pieces)) <=> \E i \in 1 .. n : g \in ToSet(pieces[i])
  BY <1>3, <1>5, <1>6, ElementsOfFlat
<1>8. IsASequence(listed)
  BY EndpointElements
<1> DEFINE flat == FlattenSeq(pieces)
<1> HIDE DEF listed, flat
<1>9. \A g : g \in ToSet(listed \o flat) <=> g \in ToSet(listed) \/ g \in ToSet(flat)
  <2> DEFINE S == ToSet(listed) \cup ToSet(flat)
  <2>1. listed \in Seq(ToSet(listed)) /\ flat \in Seq(ToSet(flat))
    BY <1>7, <1>8 DEF IsASequence, flat
  <2>2. ToSet(listed) \subseteq S /\ ToSet(flat) \subseteq S
    OBVIOUS
  <2> HIDE DEF S
  <2>3. listed \in Seq(S) /\ flat \in Seq(S)
    BY <2>1, <2>2
  <2> QED
    BY <2>3, ElementsOfBoth
<1>10. \A g : g \in ToSet(flat) <=>
         \E name \in Mates : pods[name].ip # Absent /\ AddedFor(g, slice, labels, pods[name])
  <2> TAKE g
  <2>1. ASSUME NEW i \in 1 .. n, g \in ToSet(pieces[i])
        PROVE  \E name \in Mates : pods[name].ip # Absent /\ AddedFor(g, slice, labels, pods[name])
    <3>1. joined[i] \in Mates
      BY <1>3
    <3> QED
      BY <1>5, <2>1, <3>1
  <2>2. ASSUME NEW name \in Mates, pods[name].ip # Absent, AddedFor(g, slice, labels, pods[name])
        PROVE  \E i \in 1 .. n : g \in ToSet(pieces[i])
    <3>1. PICK i \in 1 .. n : name = joined[i]
      BY <1>3
    <3> QED
      BY <1>5, <2>2, <3>1
  <2> QED
    BY <1>7, <2>1, <2>2 DEF flat
<1> QED
  BY <1>4, <1>9, <1>10 DEF labels, Mates, listed, flat

\* The endpointslice role reaches every port of the pods behind a slice that the pod
\* role reaches (endpointslice_target_groups): for every slice, every store of pods
\* and every order in which the pods come out of the hash map.
THEOREM DeclaredPortsReached ==
  ASSUME NEW slice, IsASlice(slice), NEW services, NEW pods, IsFiniteSet(DOMAIN pods),
         \A name \in DOMAIN pods : IsAPod(pods[name]), NEW nodes
  PROVE  ReachesDeclaredPorts(slice, services, pods, nodes)
<1> DEFINE labels == SliceLabels(slice, services)
           groups == SliceGroups(slice, services, pods, nodes)
<1> SUFFICES ASSUME NEW name \in Behind(slice, pods),
                    NEW address \in Addresses(PodGroups(pods[name], NoStore)),
                    address.port # Absent
             PROVE  address \in Addresses(groups)
  BY DEF ReachesDeclaredPorts
<1>1. /\ name \in DOMAIN pods /\ slice.ports # <<>>
      /\ \E e \in ToSet(slice.endpoints) :
           e.ref = [kind |-> "Pod", name |-> name] /\ pods[name].ip \in ToSet(e.addresses)
  BY DEF Behind
<1>2. PICK e \in ToSet(slice.endpoints) :
        e.ref = [kind |-> "Pod", name |-> name] /\ pods[name].ip \in ToSet(e.addresses)
  BY <1>1
<1>3. /\ pods[name].ip # Absent /\ address = Address(pods[name].ip, address.port)
      /\ \E c \in ToSet(pods[name].containers) : address.port \in ToSet(c.ports)
  BY <1>1, PodAddresses
<1>4. SUFFICES \E g \in ToSet(groups) : g.address = address
  BY DEF Addresses, ToSet
<1>5. \A g : g \in ToSet(groups) <=>
        \/ g \in ToSet(EndpointGroups(slice, labels, pods, nodes))
        \/ \E other \in JoinedPods(slice, pods) :
             pods[other].ip # Absent /\ AddedFor(g, slice, labels, pods[other])
  BY SliceElements
<1> HIDE DEF labels, groups
<1>6. CASE address.port \in ToSet(slice.ports)
  <2> DEFINE g == EndpointGroup(labels, pods[name].ip, e, address.port, pods, nodes)
  <2>1. g \in ToSet(EndpointGroups(slice, labels, pods, nodes))
    BY <1>2, <1>6, EndpointElements
  <2>2. g.address = address
    BY <1>3 DEF EndpointGroup, Group
  <2> QED
    BY <1>5, <2>1, <2>2
<1>7. CASE address.port \notin ToSet(slice.ports)
  <2>1. PICK c \in ToSet(pods[name].containers) : address.port \in ToSet(c.ports)
    BY <1>3
  <2> DEFINE g == Group(Address(pods[name].ip, address.port),
                        [labels EXCEPT !.pod = pods[name], !.container = c,
                                       !.port = address.port])
  <2>2. AddedFor(g, slice, labels, pods[name])
    BY <1>7, <2>1 DEF AddedFor, SeenPorts
  <2>3. e.addresses # <<>>
    BY <1>2 DEF ToSet
  <2>4. name \in JoinedPods(slice, pods)
    BY <1>1, <1>2, <2>3 DEF JoinedPods
  <2>5. g.address = address
    BY <1>3 DEF Group
  <2> QED
    BY <1>3, <1>5, <2>2, <2>4, <2>5
<1> QED
  BY <1>6, <1>7

\* A target that is added for a port of a pod is at no port the slice lists
\* (seen_pods in endpointslice_target_groups), so that none is scraped twice.
THEOREM PortsListedOnce ==
  ASSUME NEW slice, IsASlice(slice), NEW services, NEW pods, IsFiniteSet(DOMAIN pods),
         \A name \in DOMAIN pods : IsAPod(pods[name]), NEW nodes
  PROVE  NoPortTwice(slice, services, pods, nodes)
<1> DEFINE labels == SliceLabels(slice, services)
           groups == SliceGroups(slice, services, pods, nodes)
           Listed == {g \in ToSet(groups) : g.labels.endpoint # Absent}
<1>1. \A g : g \in ToSet(groups) <=>
        \/ g \in ToSet(EndpointGroups(slice, labels, pods, nodes))
        \/ \E name \in JoinedPods(slice, pods) :
             pods[name].ip # Absent /\ AddedFor(g, slice, labels, pods[name])
  BY SliceElements
<1>2. /\ DOMAIN labels = {"service", "endpoint", "node", "pod", "container", "port"}
      /\ labels.endpoint = Absent
  BY DEF SliceLabels, NoLabels
<1> HIDE DEF labels, groups
<1>3. ASSUME NEW g \in ToSet(EndpointGroups(slice, labels, pods, nodes))
      PROVE  g.labels.endpoint # Absent /\ g.address.port \in ToSet(slice.ports)
  <2>1. PICK e \in ToSet(slice.endpoints), port \in ToSet(slice.ports) :
          \E address \in ToSet(e.addresses) :
            g = EndpointGroup(labels, address, e, port, pods, nodes)
    BY EndpointElements
  <2>2. PICK address \in ToSet(e.addresses) :
          g = EndpointGroup(labels, address, e, port, pods, nodes)
    BY <2>1
  <2>4. g.labels.endpoint = e /\ g.address.port = port
    BY <1>2, <2>2 DEF EndpointGroup, Group, Address
  <2> QED
    BY <2>1, <2>4 DEF IsASlice
<1>4. ASSUME NEW g, NEW name \in JoinedPods(slice, pods),
             AddedFor(g, slice, labels, pods[name])
      PROVE  /\ g.labels.endpoint = Absent
             /\ g.address.port \notin SeenPorts(slice) /\ g.address.port # Absent
  <2>1. PICK c \in ToSet(pods[name].containers) :
          \E port \in ToSet(c.ports) \ SeenPorts(slice) :
            g = Group(Address(pods[name].ip, port),
                      [labels EXCEPT !.pod = pods[name], !.container = c, !.port = port])
    BY <1>4 DEF AddedFor
  <2>2. PICK port \in ToSet(c.ports) \ SeenPorts(slice) :
          g = Group(Address(pods[name].ip, port),
                    [labels EXCEPT !.pod = pods[name], !.container = c, !.port = port])
    BY <2>1
  <2>3. g.labels.endpoint = labels.endpoint /\ g.address.port = port
    BY <1>2, <2>2 DEF Group, Address
  <2>4. name \in DOMAIN pods
    BY DEF JoinedPods
  <2>5. Absent \notin ToSet(c.ports)
    BY <2>4 DEF IsAPod
  <2> QED
    BY <1>2, <2>2, <2>3, <2>5
<1>5. ASSUME NEW added \in ToSet(groups) \ Listed, NEW other \in Listed
      PROVE  added.address.port # other.address.port
  <2>1. added.address.port \notin SeenPorts(slice) /\ added.address.port # Absent
    BY <1>1, <1>3, <1>4
  <2>2. other.address.port \in ToSet(slice.ports)
    BY <1>1, <1>3, <1>4
  <2> QED
    BY <2>1, <2>2 DEF SeenPorts
<1> QED
  BY <1>5 DEF NoPortTwice, groups

-----------------------------------------------------------------------------
\* Sums: the sizes are added up one by one.
Adds(h, n, sizes) ==
  /\ h[0] = 0 /\ h[n] = Total(sizes)
  /\ \A i \in 1 .. n : h[i] = h[i - 1] + sizes[i]

\* There are such sums for any number of sizes.
LEMMA TotalSteps ==
  ASSUME NEW n \in Nat, NEW sizes \in [1 .. n -> Nat]
  PROVE  \E h \in [0 .. n -> Nat] : Adds(h, n, sizes)
<1> DEFINE Follows(f) == f = [s \in SUBSET (1 .. n) |->
                                IF s = {} THEN 0 ELSE f[s \ {Max(s)}] + sizes[Max(s)]]
           f == CHOOSE f : Follows(f)
           h == [i \in 0 .. n |-> f[1 .. i]]
<1>1. Total(sizes) = f[1 .. n]
  <2>1. DOMAIN sizes = 1 .. n
    OBVIOUS
  <2> QED
    BY <2>1 DEF Total, FoldLeft, MapThenFoldSet
<1>2. PICK g \in [SUBSET (1 .. n) -> Nat] : Follows(g)
  <2> DEFINE step == [i \in 1 .. n |-> [a \in Nat |-> a + sizes[i]]]
  <2>1. step \in [1 .. n -> [Nat -> Nat]] /\ 0 \in Nat
    OBVIOUS
  <2> HIDE DEF step
  <2>2. PICK g \in [SUBSET (1 .. n) -> Nat] : GoesBy(g, n, 0, step)
    <3> HIDE DEF f, h, Follows
    <3> QED
      BY <2>1, FoldIsDefined
  <2>3. Follows(g)
    BY <2>2 DEF step, GoesBy
  <2> HIDE DEF Follows
  <2> QED
    BY <2>3
<1>3. Follows(f)
  <2> HIDE DEF Follows
  <2> QED
    BY <1>2
<1> HIDE DEF f
<1>4. /\ h[0] = 0 /\ h[n] = f[1 .. n]
      /\ \A i \in 1 .. n : h[i] = h[i - 1] + sizes[i]
  <2>1. f[{}] = 0
    BY <1>3
  <2>2. ASSUME NEW i \in 1 .. n
        PROVE  f[1 .. i] = f[1 .. i - 1] + sizes[i]
    <3>1. /\ 1 .. i \in SUBSET (1 .. n) /\ 1 .. i # {}
          /\ Max(1 .. i) = i /\ (1 .. i) \ {i} = 1 .. i - 1
      BY UpTo
    <3>2. f[1 .. i] = f[(1 .. i) \ {Max(1 .. i)}] + sizes[Max(1 .. i)]
      BY <1>3, <3>1
    <3> QED
      BY <3>1, <3>2
  <2> QED
    BY <2>1, <2>2
<1>5. h \in [0 .. n -> Nat]
  <2> DEFINE S == {i \in 0 .. n : h[i] \in Nat}
  <2>1. 0 \in S /\ \A i \in 1 .. n : i - 1 \in S => i \in S
    <3> HIDE DEF h
    <3> QED
      BY <1>4
  <2> HIDE DEF S
  <2>2. 0 .. n \subseteq S
    BY <2>1, BoundedInduction
  <2> QED
    BY <2>2 DEF S
<1> HIDE DEF h
<1> QED
  BY <1>1, <1>4, <1>5 DEF Adds

\* The sum of sizes is a size.
LEMMA TotalIsNat ==
  ASSUME NEW n \in Nat, NEW sizes \in [1 .. n -> Nat]
  PROVE  Total(sizes) \in Nat
  BY TotalSteps DEF Adds

\* No size, one size, one size more.
LEMMA TotalOfNone == Total(<<>>) = 0
<1>1. <<>> \in [1 .. 0 -> Nat]
  OBVIOUS
<1> DEFINE n == 0
<1>2. PICK h \in [0 .. n -> Nat] : Adds(h, n, <<>>)
  <2>1. n \in Nat /\ <<>> \in [1 .. n -> Nat]
    BY <1>1
  <2> HIDE DEF n
  <2> QED
    BY <2>1, TotalSteps
<1> QED
  BY <1>2 DEF Adds

\* The sum of sizes behind each other is that of the ones and of the others.
LEMMA TotalOfBoth ==
  ASSUME NEW s \in Seq(Nat), NEW t \in Seq(Nat)
  PROVE  s \o t \in Seq(Nat) /\ Total(s \o t) = Total(s) + Total(t)
<1> DEFINE m == Len(s)
           n == Len(t)
           both == s \o t
<1>1. /\ m \in Nat /\ n \in Nat /\ s \in [1 .. m -> Nat] /\ t \in [1 .. n -> Nat]
      /\ both \in Seq(Nat) /\ both \in [1 .. m + n -> Nat]
  <2>1. both \in Seq(Nat) /\ Len(both) = m + n
    BY Joined
  <2>2. both \in [1 .. Len(both) -> Nat]
    <3> HIDE DEF both
    <3> QED
      BY <2>1
  <2> QED
    BY <2>1, <2>2
<1>2. /\ \A i \in 1 .. m : both[i] = s[i]
      /\ \A i \in 1 .. n : both[m + i] = t[i]
  OBVIOUS
<1> HIDE DEF m, n, both
<1>3. PICK f \in [0 .. m -> Nat] : Adds(f, m, s)
  BY <1>1, TotalSteps
<1>4. PICK g \in [0 .. n -> Nat] : Adds(g, n, t)
  BY <1>1, TotalSteps
<1>5. PICK h \in [0 .. m + n -> Nat] : Adds(h, m + n, both)
  <2>1. m + n \in Nat
    BY <1>1
  <2> QED
    BY <1>1, <2>1, TotalSteps
<1> DEFINE First == {i \in 0 .. m : h[i] = f[i]}
           Rest == {i \in 0 .. n : h[m + i] = f[m] + g[i]}
<1>6. 0 \in First /\ \A i \in 1 .. m : i - 1 \in First => i \in First
  BY <1>1, <1>2, <1>3, <1>5 DEF Adds
<1>7. 0 .. m \subseteq First
  <2> HIDE DEF First
  <2> QED
    BY <1>1, <1>6, BoundedInduction
<1>8. 0 \in Rest
  BY <1>1, <1>4, <1>7 DEF Adds
<1>9. ASSUME NEW i \in 1 .. n, i - 1 \in Rest
      PROVE  i \in Rest
  <2>1. /\ m + i \in 1 .. m + n /\ (m + i) - 1 = m + (i - 1)
        /\ i \in 0 .. n /\ i - 1 \in 0 .. n
    BY <1>1
  <2>2. h[m + i] = h[m + (i - 1)] + both[m + i]
    BY <1>5, <2>1 DEF Adds
  <2>3. g[i] = g[i - 1] + t[i] /\ g[i - 1] \in Nat /\ t[i] \in Nat /\ f[m] \in Nat
    <3>1. g[i] = g[i - 1] + t[i]
      BY <1>4 DEF Adds
    <3>2. g[i - 1] \in Nat
      BY <1>4, <2>1
    <3>3. t[i] \in Nat
      BY <1>1
    <3>4. f[m] \in Nat
      <4>1. m \in 0 .. m
        BY <1>1
      <4> QED
        BY <1>3, <4>1
    <3> QED
      BY <3>1, <3>2, <3>3, <3>4
  <2>4. h[m + (i - 1)] = f[m] + g[i - 1]
    BY <1>9
  <2>5. both[m + i] = t[i]
    BY <1>2
  <2> HIDE DEF Rest
  <2>6. h[m + i] = f[m] + g[i]
    BY <2>2, <2>3, <2>4, <2>5
  <2> QED
    BY <2>1, <2>6 DEF Rest
<1>10. 0 .. n \subseteq Rest
  <2> HIDE DEF Rest
  <2> QED
    BY <1>1, <1>8, <1>9, BoundedInduction
<1>11. h[m + n] = f[m] + g[n]
  BY <1>1, <1>10
<1> QED
  BY <1>1, <1>3, <1>4, <1>5, <1>11 DEF Adds, both

\* One size is its own sum.
LEMMA TotalOfOne ==
  ASSUME NEW x \in Nat
  PROVE  <<x>> \in Seq(Nat) /\ Total(<<x>>) = x
<1>1. <<x>> \in [1 .. 1 -> Nat] /\ <<x>>[1] = x /\ <<x>> \in Seq(Nat)
  OBVIOUS
<1> DEFINE n == 1
           s == <<x>>
<1>2. n \in Nat /\ s \in [1 .. n -> Nat] /\ s[n] = x /\ n - 1 = 0 /\ n \in 1 .. n
  BY <1>1
<1> HIDE DEF n, s
<1>3. PICK h \in [0 .. n -> Nat] : Adds(h, n, s)
  BY <1>2, TotalSteps
<1>4. Total(s) = x
  BY <1>2, <1>3 DEF Adds
<1> QED
  BY <1>1, <1>4 DEF s

\* The sum over pieces is the sum of their sums.
LEMMA TotalOfFlat ==
  ASSUME NEW n \in Nat, NEW pieces \in [1 .. n -> Seq(Nat)]
  PROVE  /\ FlattenSeq(pieces) \in Seq(Nat)
         /\ Total(FlattenSeq(pieces)) = Total([i \in 1 .. n |-> Total(pieces[i])])
<1> DEFINE sums == [i \in 1 .. n |-> Total(pieces[i])]
<1>1. PICK h \in [0 .. n -> Seq(Nat)] :
        /\ h[0] = <<>>
        /\ \A i \in 1 .. n : h[i] = h[i - 1] \o pieces[i]
        /\ h[n] = FlattenSeq(pieces)
  BY FlattenSteps, ZenonT(30)
<1>2. sums \in [1 .. n -> Nat]
  <2>1. ASSUME NEW i \in 1 .. n PROVE Total(pieces[i]) \in Nat
    <3>1. Len(pieces[i]) \in Nat /\ pieces[i] \in [1 .. Len(pieces[i]) -> Nat]
      OBVIOUS
    <3> QED
      BY <3>1, TotalIsNat
  <2> QED
    BY <2>1
<1>3. \A i \in 1 .. n : sums[i] = Total(pieces[i])
  OBVIOUS
<1> HIDE DEF sums
<1>4. PICK g \in [0 .. n -> Nat] : Adds(g, n, sums)
  BY <1>2, TotalSteps
<1> DEFINE Same == {i \in 0 .. n : Total(h[i]) = g[i]}
<1>5. 0 \in Same
  BY <1>1, <1>4, TotalOfNone DEF Adds
<1>6. ASSUME NEW i \in 1 .. n, i - 1 \in Same
      PROVE  i \in Same
  <2>1. h[i] = h[i - 1] \o pieces[i] /\ h[i - 1] \in Seq(Nat) /\ pieces[i] \in Seq(Nat)
    <3>1. i - 1 \in 0 .. n
      OBVIOUS
    <3> QED
      BY <1>1, <3>1
  <2>2. Total(h[i]) = Total(h[i - 1]) + Total(pieces[i])
    BY <2>1, TotalOfBoth
  <2>3. g[i] = g[i - 1] + sums[i]
    BY <1>4 DEF Adds
  <2> QED
    BY <1>3, <1>6, <2>2, <2>3
<1> HIDE DEF Same
<1>7. 0 .. n \subseteq Same
  BY <1>5, <1>6, BoundedInduction
<1>8. Total(h[n]) = g[n]
  BY <1>7 DEF Same
<1> QED
  BY <1>1, <1>4, <1>8 DEF Adds, sums

-----------------------------------------------------------------------------
\* A function that goes over a number's digits to the base d, by division.
Places(f, n, d, base, step) ==
  \A v \in 0 .. n : f[v] = IF v >= d THEN step[f[v \div d]] ELSE base

\* Numbers become smaller by division.
Lessens(d) ==
  /\ ~(0 >= d)
  /\ \A v \in Nat : v >= d => v \div d \in Nat /\ v \div d < v

\* Halving ends.
LEMMA HalvesLessen == Lessens(2)
  BY DEF Lessens

\* So does taking groups of seven bits off.
LEMMA GroupsLessen == Lessens(128)
  BY DEF Lessens

\* There is such a function for the numbers up to n, by induction.
LEMMA DigitsAreDefined ==
  ASSUME NEW n \in Nat, NEW d, Lessens(d), NEW S, NEW base \in S, NEW step \in [S -> S]
  PROVE  \E f \in [0 .. n -> S] : Places(f, n, d, base, step)
<1> DEFINE Done == {m \in 0 .. n : \E f \in [0 .. m -> S] : Places(f, m, d, base, step)}
<1>1. 0 \in Done
  <2> DEFINE f == [v \in 0 .. 0 |-> base]
  <2>1. f \in [0 .. 0 -> S] /\ Places(f, 0, d, base, step)
    BY DEF Places, Lessens
  <2> QED
    BY <2>1
<1>2. ASSUME NEW m \in 1 .. n, m - 1 \in Done
      PROVE  m \in Done
  <2>1. PICK f \in [0 .. m - 1 -> S] : Places(f, m - 1, d, base, step)
    BY <1>2
  <2> DEFINE g == [v \in 0 .. m |-> IF v = m
                                    THEN IF m >= d THEN step[f[m \div d]] ELSE base
                                    ELSE f[v]]
  <2>2. \A v \in 0 .. m - 1 : g[v] = f[v] /\ f[v] \in S
    OBVIOUS
  <2>3. g[m] = (IF m >= d THEN step[f[m \div d]] ELSE base) /\ DOMAIN g = 0 .. m
    OBVIOUS
  <2>4. m >= d => m \div d \in 0 .. m - 1
    BY DEF Lessens
  <2>5. g[m] \in S
    BY <2>2, <2>3, <2>4
  <2>6. g \in [0 .. m -> S]
    BY <2>2, <2>5
  <2> HIDE DEF g
  <2>7. ASSUME NEW v \in 0 .. m
        PROVE  g[v] = IF v >= d THEN step[g[v \div d]] ELSE base
    <3>1. CASE v = m
      BY <2>2, <2>3, <2>4, <3>1
    <3>2. CASE v # m
      <4>1. v \in 0 .. m - 1
        BY <3>2
      <4>2. v >= d => v \div d \in 0 .. m - 1
        BY <4>1 DEF Lessens
      <4>3. f[v] = IF v >= d THEN step[f[v \div d]] ELSE base
        BY <2>1, <4>1 DEF Places
      <4> QED
        BY <2>2, <4>1, <4>2, <4>3
    <3> QED
      BY <3>1, <3>2
  <2>8. Places(g, m, d, base, step)
    BY <2>7 DEF Places
  <2> QED
    BY <2>6, <2>8
<1> HIDE DEF Done
<1>3. n \in Done
  <2>1. 0 .. n \subseteq Done
    BY <1>1, <1>2, BoundedInduction
  <2> QED
    BY <2>1
<1> QED
  BY <1>3 DEF Done

\* Functions that are alike at a number if they are at its quotient are alike.
FollowQuotients(f, g, n, d) ==
  \A i \in 0 .. n : (i >= d => f[i \div d] = g[i \div d]) => f[i] = g[i]
LEMMA SameByDivision ==
  ASSUME NEW n \in Nat, NEW d, Lessens(d), NEW f, NEW g, FollowQuotients(f, g, n, d)
  PROVE  \A i \in 0 .. n : f[i] = g[i]
<1> DEFINE Same == {i \in 0 .. n : \A v \in 0 .. i : f[v] = g[v]}
<1>1. ASSUME NEW i \in 0 .. n, \A v \in 0 .. i - 1 : f[v] = g[v]
      PROVE  f[i] = g[i]
  <2>1. i >= d => i \div d \in 0 .. i - 1
    BY DEF Lessens
  <2> QED
    BY <1>1, <2>1 DEF FollowQuotients
<1>2. 0 \in Same
  <2>1. 0 \in 0 .. n /\ 0 .. 0 - 1 = {} /\ 0 .. 0 = {0}
    OBVIOUS
  <2> QED
    BY <1>1, <2>1
<1>3. ASSUME NEW i \in 1 .. n, i - 1 \in Same PROVE i \in Same
  <2>1. f[i] = g[i]
    BY <1>1, <1>3
  <2> QED
    BY <1>3, <2>1
<1> HIDE DEF Same
<1>4. 0 .. n \subseteq Same
  BY <1>2, <1>3, BoundedInduction
<1> QED
  BY <1>4 DEF Same

\* Such functions agree on the numbers they share.
LEMMA DigitsAgree ==
  ASSUME NEW m \in Nat, NEW n \in Nat, m <= n, NEW d, Lessens(d), NEW base, NEW step,
         NEW f, NEW g, Places(f, m, d, base, step), Places(g, n, d, base, step)
  PROVE  f[m] = g[m]
<1>1. ASSUME NEW i \in 0 .. m, i >= d => f[i \div d] = g[i \div d]
      PROVE  f[i] = g[i]
  <2>1. /\ f[i] = IF i >= d THEN step[f[i \div d]] ELSE base
        /\ g[i] = IF i >= d THEN step[g[i \div d]] ELSE base
    BY DEF Places
  <2> QED
    BY <1>1, <2>1
<1>2. \A i \in 0 .. m : f[i] = g[i]
  <2>1. FollowQuotients(f, g, m, d)
    BY <1>1 DEF FollowQuotients
  <2> QED
    BY <2>1, SameByDivision
<1> QED
  BY <1>2

\* HighestBit counts the halvings.
LEMMA BitSteps ==
  ASSUME NEW v \in Nat
  PROVE  /\ HighestBit(v) \in Nat
         /\ HighestBit(v) = IF v >= 2 THEN 1 + HighestBit(v \div 2) ELSE 0
<1> DEFINE step == [b \in Nat |-> 1 + b]
           Follows(f, n) == f = [i \in 0 .. n |-> IF i >= 2 THEN 1 + f[i \div 2] ELSE 0]
           bit(n) == CHOOSE f : Follows(f, n)
<1>1. step \in [Nat -> Nat] /\ 0 \in Nat /\ \A b \in Nat : step[b] = 1 + b
  OBVIOUS
<1> HIDE DEF step
<1>2. ASSUME NEW n \in Nat
      PROVE  /\ bit(n) \in [0 .. n -> Nat] /\ Places(bit(n), n, 2, 0, step)
             /\ HighestBit(n) = bit(n)[n]
  <2>1. PICK f \in [0 .. n -> Nat] : Places(f, n, 2, 0, step)
    <3> HIDE DEF bit, Follows
    <3> QED
      BY <1>1, HalvesLessen, DigitsAreDefined
  <2>2. ASSUME NEW i \in 0 .. n, i >= 2
        PROVE  i \div 2 \in 0 .. n
    BY <2>2, HalvesLessen DEF Lessens
  <2>3. ASSUME NEW i \in 0 .. n
        PROVE  f[i] = IF i >= 2 THEN 1 + f[i \div 2] ELSE 0
    BY <1>1, <2>1, <2>2, <2>3 DEF Places
  <2>4. Follows(f, n)
    BY <2>3
  <2>5. Follows(bit(n), n)
    <3> HIDE DEF Follows
    <3> QED
      BY <2>4
  <2>6. HighestBit(n) = bit(n)[n]
    BY DEF HighestBit
  <2> DEFINE g == bit(n)
  <2>7. Follows(g, n)
    BY <2>5
  <2> HIDE DEF bit, g
  <2>8. g = f
    <3>1. DOMAIN g = 0 .. n
      BY <2>7
    <3> DEFINE d == 2
    <3>0. Lessens(d)
      BY HalvesLessen
    <3>2. ASSUME NEW i \in 0 .. n, i >= d => g[i \div d] = f[i \div d]
          PROVE  g[i] = f[i]
      <4>1. g[i] = IF i >= 2 THEN 1 + g[i \div 2] ELSE 0
        BY <2>7
      <4> QED
        BY <2>3, <3>2, <4>1
    <3>6. \A i \in 0 .. n : g[i] = f[i]
      <4> HIDE DEF d, Follows
      <4>1. FollowQuotients(g, f, n, d)
        BY <3>2 DEF FollowQuotients
      <4> QED
        BY <3>0, <4>1, SameByDivision
    <3>7. g = [i \in 0 .. n |-> IF i >= 2 THEN 1 + g[i \div 2] ELSE 0]
      BY <2>7
    <3> QED
      BY <3>1, <3>6, <3>7
  <2> QED
    BY <2>1, <2>6, <2>8 DEF g
<1> HIDE DEF bit
<1>3. v < 2 => HighestBit(v) = 0
  <2>1. bit(v)[v] = IF v >= 2 THEN step[bit(v)[v \div 2]] ELSE 0
    BY <1>2 DEF Places
  <2> QED
    BY <1>2, <2>1, SMTT(30)
<1>4. CASE v >= 2
  <2> DEFINE h == v \div 2
  <2>1. h \in Nat /\ h < v
    BY <1>4, HalvesLessen DEF Lessens
  <2>2. bit(v)[v] = step[bit(v)[h]] /\ bit(v)[h] \in Nat
    <3>1. bit(v)[v] = step[bit(v)[v \div 2]]
      <4>1. bit(v)[v] = IF v >= 2 THEN step[bit(v)[v \div 2]] ELSE 0
        BY <1>2 DEF Places
      <4> QED
        BY <1>4, <4>1
    <3>2. bit(v) \in [0 .. v -> Nat]
      BY <1>2
    <3> HIDE DEF h
    <3>3. bit(v)[h] \in Nat
      BY <2>1, <3>2
    <3> QED
      BY <3>1, <3>3 DEF h
  <2> HIDE DEF h
  <2>3. bit(h)[h] = bit(v)[h]
    <3>1. h <= v /\ Places(bit(h), h, 2, 0, step) /\ Places(bit(v), v, 2, 0, step)
      BY <1>2, <2>1
    <3> QED
      BY <2>1, <3>1, HalvesLessen, DigitsAgree
  <2>4. HighestBit(v) = 1 + HighestBit(h) /\ HighestBit(v) \in Nat
    <3>1. HighestBit(v) = bit(v)[v] /\ HighestBit(h) = bit(h)[h]
      BY <1>2, <2>1
    <3>2. step[bit(v)[h]] = 1 + bit(v)[h]
      BY <1>1, <2>2
    <3> QED
      BY <2>2, <2>3, <3>1, <3>2
  <2> QED
    BY <1>4, <2>4 DEF h
<1>5. v < 2 \/ v >= 2
  OBVIOUS
<1> QED
  BY <1>3, <1>4, <1>5

\* PutVarint writes a byte for every group of seven bits.
LEMMA GroupSteps ==
  ASSUME NEW v \in Nat
  PROVE  /\ PutVarint(v) \in Seq(Nat)
         /\ PutVarint(v) = IF v >= 128 THEN <<1>> \o PutVarint(v \div 128) ELSE <<1>>
<1> DEFINE step == [s \in Seq(Nat) |-> <<1>> \o s]
           Follows(f, n) ==
             f = [i \in 0 .. n |-> IF i >= 128 THEN <<1>> \o f[i \div 128] ELSE <<1>>]
           rest(n) == CHOOSE f : Follows(f, n)
<1>1. /\ step \in [Seq(Nat) -> Seq(Nat)] /\ <<1>> \in Seq(Nat)
      /\ \A s \in Seq(Nat) : step[s] = <<1>> \o s
  OBVIOUS
<1> HIDE DEF step
<1>2. ASSUME NEW n \in Nat
      PROVE  /\ rest(n) \in [0 .. n -> Seq(Nat)] /\ Places(rest(n), n, 128, <<1>>, step)
             /\ PutVarint(n) = rest(n)[n]
  <2>1. PICK f : f \in [0 .. n -> Seq(Nat)] /\ Places(f, n, 128, <<1>>, step)
    <3> HIDE DEF rest, Follows
    <3> QED
      BY <1>1, GroupsLessen, DigitsAreDefined
  <2>2. ASSUME NEW i \in 0 .. n, i >= 128
        PROVE  i \div 128 \in 0 .. n
    BY <2>2, GroupsLessen DEF Lessens
  <2>3. ASSUME NEW i \in 0 .. n
        PROVE  f[i] = IF i >= 128 THEN <<1>> \o f[i \div 128] ELSE <<1>>
    <3>1. f[i] = IF i >= 128 THEN step[f[i \div 128]] ELSE <<1>>
      BY <2>1 DEF Places
    <3>2. i >= 128 => f[i \div 128] \in Seq(Nat)
      BY <2>1, <2>2
    <3> QED
      BY <1>1, <3>1, <3>2
  <2>4. Follows(f, n)
    BY <2>1, <2>3
  <2>5. Follows(rest(n), n)
    <3> HIDE DEF Follows
    <3> QED
      BY <2>4
  <2>6. PutVarint(n) = rest(n)[n]
    BY DEF PutVarint
  <2> DEFINE g == rest(n)
  <2>7. Follows(g, n)
    BY <2>5
  <2> HIDE DEF rest, g
  <2>8. g = f
    <3>1. DOMAIN g = 0 .. n
      BY <2>7
    <3> DEFINE d == 128
    <3>0. Lessens(d)
      BY GroupsLessen
    <3>2. ASSUME NEW i \in 0 .. n, i >= d => g[i \div d] = f[i \div d]
          PROVE  g[i] = f[i]
      <4>1. g[i] = IF i >= 128 THEN <<1>> \o g[i \div 128] ELSE <<1>>
        BY <2>7
      <4> QED
        BY <2>3, <3>2, <4>1
    <3>3. \A i \in 0 .. n : g[i] = f[i]
      <4> HIDE DEF d, Follows
      <4>1. FollowQuotients(g, f, n, d)
        BY <3>2 DEF FollowQuotients
      <4> QED
        BY <3>0, <4>1, SameByDivision
    <3>4. g = [i \in 0 .. n |-> IF i >= 128 THEN <<1>> \o g[i \div 128] ELSE <<1>>]
      BY <2>7
    <3>5. f = [i \in 0 .. n |-> f[i]]
      BY <2>1
    <3> HIDE DEF Follows
    <3> QED
      BY <3>1, <3>3, <3>4, <3>5
  <2> QED
    BY <2>1, <2>6, <2>8 DEF g
<1> HIDE DEF rest
<1>3. rest(v)[v] = IF v >= 128 THEN step[rest(v)[v \div 128]] ELSE <<1>>
  BY <1>2 DEF Places
<1>4. CASE v >= 128
  <2> DEFINE h == v \div 128
  <2>1. h \in Nat /\ h < v
    BY <1>4, GroupsLessen DEF Lessens
  <2>2. rest(v)[v] = step[rest(v)[h]]
    BY <1>3, <1>4
  <2> HIDE DEF h
  <2>3. rest(h)[h] = rest(v)[h]
    <3>1. h <= v /\ Places(rest(h), h, 128, <<1>>, step) /\ Places(rest(v), v, 128, <<1>>, step)
      <4>1. Places(rest(h), h, 128, <<1>>, step)
        BY <1>2, <2>1
      <4>2. Places(rest(v), v, 128, <<1>>, step)
        BY <1>2
      <4> QED
        BY <2>1, <4>1, <4>2
    <3> QED
      BY <2>1, <3>1, GroupsLessen, DigitsAgree
  <2>4. rest(h)[h] \in Seq(Nat)
    BY <1>2, <2>1
  <2>5. PutVarint(v) = <<1>> \o PutVarint(h) /\ PutVarint(h) \in Seq(Nat)
    BY <1>1, <1>2, <2>1, <2>2, <2>3, <2>4
  <2>6. PutVarint(v) \in Seq(Nat)
    BY <1>1, <2>5
  <2> QED
    BY <1>4, <2>5, <2>6 DEF h
<1>5. CASE ~(v >= 128)
  BY <1>1, <1>2, <1>3, <1>5
<1> QED
  BY <1>4, <1>5

\* A group of seven bits has the bits 0 to 6.
LEMMA BitOfGroup ==
  ASSUME NEW v \in Nat
  PROVE  /\ v < 128 => HighestBit(v) \in 0 .. 6
         /\ v >= 128 => HighestBit(v) = 7 + HighestBit(v \div 128)
<1>1. \A w \in Nat : w >= 2 => w \div 2 \in Nat /\ HighestBit(w) = 1 + HighestBit(w \div 2)
  BY BitSteps
<1>2. \A w \in Nat : w < 2 => HighestBit(w) = 0
  BY BitSteps
<1> DEFINE a == v \div 2
           b == a \div 2
           c == b \div 2
           d == c \div 2
           e == d \div 2
           f == e \div 2
           g == f \div 2
<1>3. a \in Nat /\ b \in Nat /\ c \in Nat /\ d \in Nat /\ e \in Nat /\ f \in Nat /\ g \in Nat
  OBVIOUS
<1>4. /\ v >= 128 => a >= 64
      /\ a >= 64 => b >= 32
      /\ b >= 32 => c >= 16
      /\ c >= 16 => d >= 8
      /\ d >= 8 => e >= 4
      /\ e >= 4 => f >= 2
  OBVIOUS
<1>5. g = v \div 128
  OBVIOUS
<1>6. /\ v < 128 => a < 64
      /\ a < 64 => b < 32
      /\ b < 32 => c < 16
      /\ c < 16 => d < 8
      /\ d < 8 => e < 4
      /\ e < 4 => f < 2
  OBVIOUS
<1>7. /\ v >= 2 => HighestBit(v) = 1 + HighestBit(a)
      /\ a >= 2 => HighestBit(a) = 1 + HighestBit(b)
      /\ b >= 2 => HighestBit(b) = 1 + HighestBit(c)
      /\ c >= 2 => HighestBit(c) = 1 + HighestBit(d)
      /\ d >= 2 => HighestBit(d) = 1 + HighestBit(e)
      /\ e >= 2 => HighestBit(e) = 1 + HighestBit(f)
      /\ f >= 2 => HighestBit(f) = 1 + HighestBit(g)
  <2>1. \A w \in Nat : w >= 2 => HighestBit(w) = 1 + HighestBit(w \div 2)
    BY <1>1
  <2> QED
    BY <1>3, <2>1
<1>8. HighestBit(g) \in Nat
  BY <1>3, BitSteps
<1> HIDE DEF a, b, c, d, e, f, g
<1>9. v >= 128 => HighestBit(v) = 7 + HighestBit(g)
  BY <1>3, <1>4, <1>7, <1>8
<1>10. v < 128 => HighestBit(v) \in 0 .. 6
  BY <1>2, <1>3, <1>6, <1>7
<1> QED
  BY <1>5, <1>9, <1>10

\* A number of 64 bits.
Word(v) == v \in Nat /\ v < 18446744073709551616

\* A number of 64 bits has no bit beyond 63.
LEMMA BitOfWord ==
  ASSUME NEW v \in Nat, Word(v)
  PROVE  HighestBit(v) \in 0 .. 63
<1> DEFINE Under(limit, bit) == \A w \in Nat : w < limit => HighestBit(w) \in 0 .. bit
<1>1. Under(128, 6)
  BY BitOfGroup
<1>2. Under(16384, 13)
  BY <1>1, BitOfGroup
<1>3. Under(2097152, 20)
  BY <1>2, BitOfGroup
<1>4. Under(268435456, 27)
  BY <1>3, BitOfGroup
<1>5. Under(34359738368, 34)
  BY <1>4, BitOfGroup
<1>6. Under(4398046511104, 41)
  BY <1>5, BitOfGroup
<1>7. Under(562949953421312, 48)
  BY <1>6, BitOfGroup
<1>8. Under(72057594037927936, 55)
  BY <1>7, BitOfGroup
<1>9. Under(9223372036854775808, 62)
  BY <1>8, BitOfGroup
<1>10. v \div 2 \in Nat /\ v \div 2 < 9223372036854775808
  BY DEF Word
<1>11. HighestBit(v \div 2) \in 0 .. 62
  BY <1>9, <1>10
<1>12. HighestBit(v) = IF v >= 2 THEN 1 + HighestBit(v \div 2) ELSE 0
  BY BitSteps
<1> QED
  BY <1>11, <1>12

\* A varint takes as many bytes as varint_len says, for every number of 64 bits.
LEMMA VarintTakes ==
  ASSUME NEW v \in Nat, Word(v)
  PROVE  /\ PutVarint(v) \in Seq(Nat) /\ Total(PutVarint(v)) = VarintLen(v)
         /\ VarintLen(v) \in 1 .. 10
<1> DEFINE Good == {w \in 0 .. v : Total(PutVarint(w)) = HighestBit(w) \div 7 + 1}
           All == {m \in 0 .. v : 0 .. m \subseteq Good}
<1>1. ASSUME NEW w \in 0 .. v, 0 .. w - 1 \subseteq Good
      PROVE  w \in Good
  <2>1. /\ PutVarint(w) = IF w >= 128 THEN <<1>> \o PutVarint(w \div 128) ELSE <<1>>
        /\ w < 128 => HighestBit(w) \in 0 .. 6
        /\ w >= 128 => HighestBit(w) = 7 + HighestBit(w \div 128)
    <3>1. w \in Nat
      OBVIOUS
    <3> HIDE DEF Good
    <3>2. PutVarint(w) = IF w >= 128 THEN <<1>> \o PutVarint(w \div 128) ELSE <<1>>
      BY <3>1, GroupSteps, Zenon
    <3> QED
      BY <3>1, <3>2, BitOfGroup, Zenon
  <2>2. Total(<<1>>) = 1 /\ <<1>> \in Seq(Nat)
    BY TotalOfOne
  <2>3. CASE w < 128
    <3>1. HighestBit(w) \div 7 = 0 /\ PutVarint(w) = <<1>>
      BY <2>1, <2>3
    <3> QED
      BY <2>2, <3>1
  <2>4. CASE w >= 128
    <3> DEFINE h == w \div 128
    <3>1. h \in Nat /\ h \in 0 .. w - 1
      BY <2>4, GroupsLessen DEF Lessens
    <3>2. PutVarint(w) = <<1>> \o PutVarint(h) /\ HighestBit(w) = 7 + HighestBit(h)
      BY <2>1, <2>4
    <3> HIDE DEF h
    <3>3. PutVarint(h) \in Seq(Nat) /\ HighestBit(h) \in Nat
      BY <3>1, GroupSteps, BitSteps
    <3>4. Total(PutVarint(h)) = HighestBit(h) \div 7 + 1
      BY <1>1, <3>1
    <3>5. Total(PutVarint(w)) = Total(<<1>>) + Total(PutVarint(h))
      BY <2>2, <3>2, <3>3, TotalOfBoth, Zenon
    <3>6. (7 + HighestBit(h)) \div 7 = HighestBit(h) \div 7 + 1
      BY <3>3
    <3>7. HighestBit(h) \div 7 \in Nat
      BY <3>3
    <3>8. Total(PutVarint(w)) = HighestBit(w) \div 7 + 1
      BY <2>2, <3>2, <3>4, <3>5, <3>6, <3>7
    <3> QED
      BY <3>8
  <2> QED
    BY <2>3, <2>4
<1>2. 0 \in All
  <2>1. 0 \in 0 .. v /\ 0 .. 0 - 1 = {} /\ 0 .. 0 = {0}
    OBVIOUS
  <2> HIDE DEF Good
  <2> QED
    BY <1>1, <2>1
<1>3. ASSUME NEW m \in 1 .. v, m - 1 \in All PROVE m \in All
  <2>1. m \in Good
    <3> HIDE DEF Good
    <3> QED
      BY <1>1, <1>3
  <2> HIDE DEF Good
  <2> QED
    BY <1>3, <2>1
<1> HIDE DEF All
<1>4. v \in All
  BY <1>2, <1>3, BoundedInduction
<1>5. Total(PutVarint(v)) = HighestBit(v) \div 7 + 1
  <2>1. v \in Good
    BY <1>4 DEF All
  <2> QED
    BY <2>1
<1>6. HighestBit(v) \in 0 .. 63
  BY BitOfWord
<1>7. VarintLen(v) = HighestBit(v) \div 7 + 1
  BY <1>6, VarintLenIsExact DEF VarintLen, VarintLenExact
<1>8. PutVarint(v) \in Seq(Nat)
  BY GroupSteps
<1>9. VarintLen(v) \in 1 .. 10
  BY <1>6, <1>7
<1> HIDE DEF Good
<1> QED
  BY <1>5, <1>7, <1>8, <1>9, Zenon

\* A varint has a length.
LEMMA VarintIsSized ==
  ASSUME NEW x \in Nat
  PROVE  VarintLen(x) \in Nat /\ VarintLen(x) >= 1
  BY BitSteps DEF VarintLen, LengthOfBit

-----------------------------------------------------------------------------
\* What is shorter than a number of 64 bits is one.
LEMMA WordBelow ==
  ASSUME NEW x \in Nat, NEW y, Word(y), x <= y
  PROVE  Word(x)
  BY DEF Word

\* No size is beyond the sum.
LEMMA TotalAtLeast ==
  ASSUME NEW n \in Nat, NEW sizes \in [1 .. n -> Nat], NEW k \in 1 .. n
  PROVE  sizes[k] <= Total(sizes)
<1>1. PICK h \in [0 .. n -> Nat] : Adds(h, n, sizes)
  BY TotalSteps
<1> DEFINE Reached == {i \in 0 .. n : i >= k => sizes[k] <= h[i]}
<1>2. 0 \in Reached
  OBVIOUS
<1>3. ASSUME NEW i \in 1 .. n, i - 1 \in Reached PROVE i \in Reached
  <2>1. /\ h[i] = h[i - 1] + sizes[i] /\ h[i - 1] \in Nat /\ h[i] \in Nat
        /\ sizes[i] \in Nat /\ sizes[k] \in Nat
    <3>1. h[i] = h[i - 1] + sizes[i]
      BY <1>1 DEF Adds
    <3>2. i - 1 \in 0 .. n /\ i \in 0 .. n
      OBVIOUS
    <3> QED
      BY <3>1, <3>2
  <2>2. CASE i = k
    BY <2>1, <2>2
  <2>3. CASE i # k
    BY <1>3, <2>1, <2>3
  <2> QED
    BY <2>2, <2>3
<1> HIDE DEF Reached
<1>4. 0 .. n \subseteq Reached
  BY <1>2, <1>3, BoundedInduction
<1>5. n \in 0 .. n /\ n >= k
  OBVIOUS
<1> QED
  BY <1>1, <1>4, <1>5 DEF Reached, Adds

\* Three pieces behind each other.
LEMMA TotalOfThree ==
  ASSUME NEW a \in Seq(Nat), NEW b \in Seq(Nat), NEW c \in Seq(Nat)
  PROVE  /\ a \o b \o c \in Seq(Nat)
         /\ Total(a \o b \o c) = Total(a) + Total(b) + Total(c)
<1>1. a \o b \in Seq(Nat) /\ Total(a \o b) = Total(a) + Total(b)
  BY TotalOfBoth
<1> DEFINE ab == a \o b
<1>2. ab \in Seq(Nat) /\ Total(ab) = Total(a) + Total(b)
  BY <1>1
<1> HIDE DEF ab
<1>3. ab \o c \in Seq(Nat) /\ Total(ab \o c) = Total(ab) + Total(c)
  BY <1>2, TotalOfBoth
<1> QED
  BY <1>2, <1>3 DEF ab

\* What is written has a size.
LEMMA TotalOfBytes ==
  ASSUME NEW body \in Seq(Nat)
  PROVE  Total(body) \in Nat
<1>1. Len(body) \in Nat /\ body \in [1 .. Len(body) -> Nat]
  OBVIOUS
<1> QED
  BY <1>1, TotalIsNat

\* A field that is there takes a byte more than its body, one that is not takes none.
LEMMA FieldTakes ==
  ASSUME NEW present \in BOOLEAN, NEW body \in Seq(Nat)
  PROVE  /\ Field(present, body) \in Seq(Nat)
         /\ Total(Field(present, body)) = IF present THEN 1 + Total(body) ELSE 0
<1>1. /\ <<1>> \in Seq(Nat) /\ Total(<<1>>) = 1
      /\ <<1>> \o body \in Seq(Nat) /\ Total(<<1>> \o body) = Total(<<1>>) + Total(body)
  BY TotalOfOne, TotalOfBoth
<1>2. CASE present
  <2>1. Field(present, body) = <<1>> \o body
    BY <1>2 DEF Field
  <2> QED
    BY <1>1, <1>2, <2>1, TotalOfBytes
<1>3. CASE ~present
  <2>1. Field(present, body) = <<>> /\ <<>> \in Seq(Nat)
    BY <1>3 DEF Field
  <2> QED
    BY <1>3, <2>1, TotalOfNone
<1> QED
  BY <1>2, <1>3

\* A message behind its length takes what DelimitedLen says, if its length is the
\* one announced.
LEMMA DelimitedTakes ==
  ASSUME NEW length \in Nat, Word(length), NEW body \in Seq(Nat), Total(body) = length
  PROVE  /\ Delimited(length, body) \in Seq(Nat)
         /\ Total(Delimited(length, body)) = DelimitedLen(length)
         /\ DelimitedLen(length) \in Nat /\ length <= DelimitedLen(length)
<1> DEFINE v == PutVarint(length)
           o == <<1>>
<1>1. /\ o \in Seq(Nat) /\ Total(o) = 1 /\ v \in Seq(Nat) /\ Total(v) = VarintLen(length)
      /\ VarintLen(length) \in 1 .. 10
  BY TotalOfOne, VarintTakes
<1>2. Delimited(length, body) = o \o v \o body
  BY DEF Delimited
<1> HIDE DEF v, o
<1>3. o \o v \o body \in Seq(Nat) /\ Total(o \o v \o body) = Total(o) + Total(v) + Total(body)
  BY <1>1, TotalOfThree
<1>4. Total(o \o v \o body) = DelimitedLen(length)
  BY <1>1, <1>3 DEF DelimitedLen
<1>5. DelimitedLen(length) \in Nat /\ length <= DelimitedLen(length)
  BY <1>1, SMTT(30) DEF DelimitedLen
<1> QED
  BY <1>2, <1>3, <1>4, <1>5

\* A timestamp takes what it is announced to take.
LEMMA Int64Takes ==
  ASSUME NEW t \in Int, t >= 0 => Word(t)
  PROVE  /\ PutInt64(t) \in Seq(Nat) /\ Total(PutInt64(t)) = Int64Len(t)
         /\ Int64Len(t) \in 1 .. 10
<1>1. CASE t < 0
  <2>1. LengthOfBit(63) = 10
    BY DEF LengthOfBit
  <2>2. PutInt64(t) = <<10>> /\ Int64Len(t) = 10
    BY <1>1, <2>1 DEF PutInt64, Int64Len
  <2> DEFINE ten == 10
  <2>3. ten \in Nat
    OBVIOUS
  <2> HIDE DEF ten
  <2>4. <<ten>> \in Seq(Nat) /\ Total(<<ten>>) = ten
    BY <2>3, TotalOfOne
  <2> QED
    BY <2>2, <2>4 DEF ten
<1>2. CASE t >= 0
  <2>1. PutInt64(t) = PutVarint(t) /\ Int64Len(t) = VarintLen(t) /\ t \in Nat /\ Word(t)
    BY <1>2 DEF PutInt64, Int64Len
  <2> QED
    BY <2>1, VarintTakes
<1> QED
  BY <1>1, <1>2

-----------------------------------------------------------------------------
\* A signed number whose zigzag is one of 64 bits.
WireInt(x) == x \in Int /\ Zigzag(x) \in Nat /\ Word(Zigzag(x))

\* What is in a message that can be sent.
WireSample(sample) == sample.timestamp \in Int /\ (sample.timestamp >= 0 => Word(sample.timestamp))
WireCount(count) == count.float \in BOOLEAN /\ count.value \in Nat /\ Word(count.value)
WireSpan(span) == WireInt(span.offset) /\ span.length \in Nat /\ Word(span.length)
WireSide(side) ==
  /\ \E n \in Nat : DOMAIN side.spans = 1 .. n /\ \A i \in 1 .. n : WireSpan(side.spans[i])
  /\ side.deltas \in Seq(Int) /\ \A i \in DOMAIN side.deltas : WireInt(side.deltas[i])
  /\ side.counts \in Nat
WireHistogram(h) ==
  /\ WireCount(h.count) /\ WireCount(h.zero_count) /\ WireInt(h.schema)
  /\ WireSide(h.negative) /\ WireSide(h.positive) /\ h.gauge \in BOOLEAN

\* A sample takes what it is announced to take.
LEMMA SampleTakes ==
  ASSUME NEW sample, WireSample(sample)
  PROVE  /\ PutSample(sample) \in Seq(Nat) /\ SampleLen(sample) \in 0 .. 20
         /\ Total(PutSample(sample)) = SampleLen(sample)
<1> DEFINE t == sample.timestamp
           value == sample.value # "zero"
           eight == <<Double>>
           a == Field(value, eight)
           b == Field(t # 0, PutInt64(t))
<1>1. /\ t \in Int /\ PutInt64(t) \in Seq(Nat) /\ Total(PutInt64(t)) = Int64Len(t)
      /\ Int64Len(t) \in 1 .. 10
  BY Int64Takes DEF WireSample
<1>2. eight \in Seq(Nat) /\ Total(eight) = 8
  <2>1. Double \in Nat /\ Double = 8
    BY DEF Double
  <2> QED
    BY <2>1, TotalOfOne
<1>3. PutSample(sample) = a \o b
  BY DEF PutSample
<1>4. value \in BOOLEAN /\ (t # 0) \in BOOLEAN
  OBVIOUS
<1>5. SampleLen(sample) = (IF value THEN 9 ELSE 0) + (IF t # 0 THEN 1 + Int64Len(t) ELSE 0)
  BY DEF SampleLen
<1> HIDE DEF eight, value
<1>6. /\ a \in Seq(Nat) /\ Total(a) = IF value THEN 1 + Total(eight) ELSE 0
      /\ b \in Seq(Nat) /\ Total(b) = IF t # 0 THEN 1 + Total(PutInt64(t)) ELSE 0
  BY <1>1, <1>2, <1>4, FieldTakes
<1> HIDE DEF a, b, t
<1>7. a \o b \in Seq(Nat) /\ Total(a \o b) = Total(a) + Total(b)
  BY <1>6, TotalOfBoth
<1>8. Total(a) = (IF value THEN 9 ELSE 0) /\ Total(b) = IF t # 0 THEN 1 + Int64Len(t) ELSE 0
  BY <1>1, <1>2, <1>6
<1>9. SampleLen(sample) = Total(a) + Total(b)
  BY <1>5, <1>8, Zenon
<1>10. Total(a) \in 0 .. 9
  BY <1>8
<1>11. Total(b) \in 0 .. 11
  BY <1>1, <1>8
<1>12. Total(a) + Total(b) \in 0 .. 20
  BY <1>10, <1>11
<1> QED
  BY <1>3, <1>7, <1>9, <1>12

\* A count takes what it is announced to take.
LEMMA CountTakes ==
  ASSUME NEW count, WireCount(count)
  PROVE  /\ PutCount(count) \in Seq(Nat) /\ CountLen(count) \in 0 .. 11
         /\ Total(PutCount(count)) = CountLen(count)
<1> DEFINE body == IF count.float THEN <<Double>> ELSE PutVarint(count.value)
           n == IF count.float THEN 8 ELSE VarintLen(count.value)
<1>1. /\ PutVarint(count.value) \in Seq(Nat)
      /\ Total(PutVarint(count.value)) = VarintLen(count.value)
      /\ VarintLen(count.value) \in 1 .. 10
  BY VarintTakes DEF WireCount
<1>2. <<Double>> \in Seq(Nat) /\ Total(<<Double>>) = 8
  <2>1. Double \in Nat /\ Double = 8
    BY DEF Double
  <2> QED
    BY <2>1, TotalOfOne
<1>3. body \in Seq(Nat) /\ Total(body) = n /\ n \in 1 .. 10
  <2>1. CASE count.float
    BY <1>2, <2>1
  <2>2. CASE ~count.float
    BY <1>1, <2>2
  <2> QED
    BY <2>1, <2>2
<1>4. PutCount(count) = Field(TRUE, body)
  BY DEF PutCount
<1>5. CountLen(count) = 1 + n
  BY DEF CountLen
<1> HIDE DEF body, n
<1>6. Field(TRUE, body) \in Seq(Nat) /\ Total(Field(TRUE, body)) = 1 + Total(body)
  BY <1>3, FieldTakes
<1>7. Total(PutCount(count)) = CountLen(count) /\ PutCount(count) \in Seq(Nat)
  BY <1>3, <1>4, <1>5, <1>6
<1>8. CountLen(count) \in 0 .. 11
  BY <1>3, <1>5
<1> QED
  BY <1>7, <1>8

\* A span takes what it is announced to take.
LEMMA SpanTakes ==
  ASSUME NEW span, WireSpan(span)
  PROVE  /\ PutSpan(span) \in Seq(Nat) /\ SpanLen(span) \in 0 .. 22
         /\ Total(PutSpan(span)) = SpanLen(span)
<1> DEFINE z == Zigzag(span.offset)
           a == Field(span.offset # 0, PutVarint(z))
           b == Field(span.length # 0, PutVarint(span.length))
<1>1. /\ PutVarint(z) \in Seq(Nat) /\ Total(PutVarint(z)) = VarintLen(z)
      /\ VarintLen(z) \in 1 .. 10
      /\ PutVarint(span.length) \in Seq(Nat)
      /\ Total(PutVarint(span.length)) = VarintLen(span.length)
      /\ VarintLen(span.length) \in 1 .. 10
  BY VarintTakes DEF WireSpan, WireInt
<1>2. PutSpan(span) = a \o b
  BY DEF PutSpan
<1>3. SpanLen(span) = (IF span.offset # 0 THEN 1 + VarintLen(z) ELSE 0)
                        + (IF span.length # 0 THEN 1 + VarintLen(span.length) ELSE 0)
  BY DEF SpanLen
<1> HIDE DEF z
<1>4. /\ a \in Seq(Nat) /\ Total(a) = IF span.offset # 0 THEN 1 + Total(PutVarint(z)) ELSE 0
      /\ b \in Seq(Nat)
      /\ Total(b) = IF span.length # 0 THEN 1 + Total(PutVarint(span.length)) ELSE 0
  BY <1>1, FieldTakes
<1> HIDE DEF a, b
<1>5. a \o b \in Seq(Nat) /\ Total(a \o b) = Total(a) + Total(b)
  BY <1>4, TotalOfBoth
<1>6. /\ Total(a) = IF span.offset # 0 THEN 1 + VarintLen(z) ELSE 0
      /\ Total(b) = IF span.length # 0 THEN 1 + VarintLen(span.length) ELSE 0
  BY <1>1, <1>4
<1>7. SpanLen(span) = Total(a) + Total(b)
  BY <1>3, <1>6, Zenon
<1>8. Total(a) \in 0 .. 11
  <2>1. VarintLen(z) \in 1 .. 10
    BY <1>1
  <2> QED
    BY <1>6, <2>1
<1>9. Total(b) \in 0 .. 11
  <2>1. VarintLen(span.length) \in 1 .. 10
    BY <1>1
  <2> QED
    BY <1>6, <2>1
<1>10. Total(a) + Total(b) \in 0 .. 22
  BY <1>8, <1>9
<1> QED
  BY <1>2, <1>5, <1>7, <1>10

\* Messages behind each other take what their sizes add up to.
LEMMA EachTakes ==
  ASSUME NEW n \in Nat, NEW pieces \in [1 .. n -> Seq(Nat)], NEW sizes \in [1 .. n -> Nat],
         \A i \in 1 .. n : Total(pieces[i]) = sizes[i]
  PROVE  /\ FlattenSeq(pieces) \in Seq(Nat) /\ Total(FlattenSeq(pieces)) = Total(sizes)
         /\ Total(sizes) \in Nat
<1>1. sizes = [i \in 1 .. n |-> Total(pieces[i])]
  OBVIOUS
<1>2. /\ FlattenSeq(pieces) \in Seq(Nat)
      /\ Total(FlattenSeq(pieces)) = Total([i \in 1 .. n |-> Total(pieces[i])])
  BY TotalOfFlat
<1> QED
  BY <1>1, <1>2, TotalOfBytes

\* The spans take what they are announced to.
LEMMA SpansTake ==
  ASSUME NEW n \in Nat, NEW spans, DOMAIN spans = 1 .. n, \A i \in 1 .. n : WireSpan(spans[i])
  PROVE  LET all == FlattenSeq([i \in DOMAIN spans |->
                                  Delimited(SpanLen(spans[i]), PutSpan(spans[i]))])
         IN all \in Seq(Nat) /\ Total(all) = SpansLen(spans) /\ SpansLen(spans) \in Nat
<1> DEFINE pieces == [i \in 1 .. n |-> Delimited(SpanLen(spans[i]), PutSpan(spans[i]))]
           sizes == [i \in 1 .. n |-> DelimitedLen(SpanLen(spans[i]))]
<1>1. ASSUME NEW i \in 1 .. n
      PROVE  /\ pieces[i] \in Seq(Nat) /\ sizes[i] \in Nat /\ Total(pieces[i]) = sizes[i]
  <2> DEFINE length == SpanLen(spans[i])
             body == PutSpan(spans[i])
  <2>1. body \in Seq(Nat) /\ length \in 0 .. 22 /\ Total(body) = length
    BY SpanTakes
  <2>2. pieces[i] = Delimited(length, body) /\ sizes[i] = DelimitedLen(length)
    OBVIOUS
  <2> HIDE DEF length, body, pieces, sizes
  <2>3. length \in Nat /\ Word(length)
    BY <2>1 DEF Word
  <2> QED
    BY <2>1, <2>2, <2>3, DelimitedTakes
<1>2. DOMAIN pieces = 1 .. n /\ DOMAIN sizes = 1 .. n
  OBVIOUS
<1>3. /\ FlattenSeq([i \in DOMAIN spans |-> Delimited(SpanLen(spans[i]), PutSpan(spans[i]))])
           = FlattenSeq(pieces)
      /\ SpansLen(spans) = Total(sizes)
  BY DEF SpansLen, SumOver
<1>4. pieces \in [1 .. n -> Seq(Nat)] /\ sizes \in [1 .. n -> Nat]
  BY <1>1
<1> HIDE DEF pieces, sizes
<1>5. \A i \in 1 .. n : Total(pieces[i]) = sizes[i]
  BY <1>1
<1>6. /\ FlattenSeq(pieces) \in Seq(Nat) /\ Total(FlattenSeq(pieces)) = Total(sizes)
      /\ Total(sizes) \in Nat
  BY <1>4, <1>5, EachTakes, Zenon
<1> QED
  BY <1>3, <1>6, Zenon

\* The deltas take what they are announced to.
LEMMA DeltasTake ==
  ASSUME NEW deltas \in Seq(Int), \A i \in DOMAIN deltas : WireInt(deltas[i])
  PROVE  LET all == FlattenSeq([i \in DOMAIN deltas |-> PutVarint(Zigzag(deltas[i]))])
         IN /\ all \in Seq(Nat) /\ Total(all) = DeltasLen(deltas)
            /\ DeltasLen(deltas) \in Nat /\ (DeltasLen(deltas) = 0 <=> deltas = <<>>)
<1> DEFINE n == Len(deltas)
           pieces == [i \in DOMAIN deltas |-> PutVarint(Zigzag(deltas[i]))]
           sizes == [i \in DOMAIN deltas |-> VarintLen(Zigzag(deltas[i]))]
<1>1. n \in Nat /\ DOMAIN deltas = 1 .. n
  OBVIOUS
<1>2. ASSUME NEW i \in 1 .. n
      PROVE  /\ pieces[i] \in Seq(Nat) /\ sizes[i] \in 1 .. 10 /\ Total(pieces[i]) = sizes[i]
  <2>1. WireInt(deltas[i])
    BY <1>1
  <2>2. pieces[i] = PutVarint(Zigzag(deltas[i])) /\ sizes[i] = VarintLen(Zigzag(deltas[i]))
    BY <1>1
  <2> HIDE DEF pieces, sizes
  <2> QED
    BY <2>1, <2>2, VarintTakes DEF WireInt
<1>3. /\ FlattenSeq([i \in DOMAIN deltas |-> PutVarint(Zigzag(deltas[i]))]) = FlattenSeq(pieces)
      /\ DeltasLen(deltas) = Total(sizes)
  BY DEF DeltasLen, SumOver
<1>4. DOMAIN pieces = 1 .. n /\ DOMAIN sizes = 1 .. n
  BY <1>1
<1>5. pieces \in [1 .. n -> Seq(Nat)] /\ sizes \in [1 .. n -> Nat]
  <2>1. pieces = [i \in 1 .. n |-> pieces[i]] /\ sizes = [i \in 1 .. n |-> sizes[i]]
    BY <1>4
  <2>2. \A i \in 1 .. n : pieces[i] \in Seq(Nat) /\ sizes[i] \in Nat
    <3> HIDE DEF pieces, sizes, n
    <3> TAKE i \in 1 .. n
    <3>1. pieces[i] \in Seq(Nat) /\ sizes[i] \in 1 .. 10
      BY <1>2
    <3>2. sizes[i] \in Nat
      BY <3>1
    <3> QED
      BY <3>1, <3>2
  <2> HIDE DEF pieces, sizes, n
  <2> QED
    BY <2>1, <2>2
<1>6. deltas = <<>> => sizes = <<>>
  OBVIOUS
<1>7. deltas # <<>> => n # 0
  OBVIOUS
<1> HIDE DEF pieces, sizes, n
<1>8. /\ FlattenSeq(pieces) \in Seq(Nat) /\ Total(FlattenSeq(pieces)) = Total(sizes)
      /\ Total(sizes) \in Nat
  <2>1. \A i \in 1 .. n : Total(pieces[i]) = sizes[i]
    BY <1>2
  <2> QED
    BY <1>1, <1>5, <2>1, EachTakes
<1>9. deltas # <<>> => Total(sizes) # 0
  <2> SUFFICES ASSUME deltas # <<>> PROVE Total(sizes) # 0
    OBVIOUS
  <2>1. n \in 1 .. n
    BY <1>1, <1>7
  <2>2. sizes[n] <= Total(sizes) /\ sizes[n] \in 1 .. 10
    BY <1>1, <1>2, <1>5, <2>1, TotalAtLeast
  <2> QED
    BY <1>8, <2>2
<1>10. Total(sizes) = 0 <=> deltas = <<>>
  BY <1>6, <1>9, TotalOfNone
<1> QED
  BY <1>3, <1>8, <1>10, Zenon

\* A packed field is longer than its payload.
LEMMA PackedTakes ==
  ASSUME NEW x \in Nat
  PROVE  PackedLen(x) \in Nat /\ x <= PackedLen(x)
<1>1. VarintLen(x) \in Nat
  BY VarintIsSized
<1> QED
  BY <1>1 DEF PackedLen, DelimitedLen

\* A side has a length.
LEMMA SideIsSized ==
  ASSUME NEW side, WireSide(side)
  PROVE  SideLen(side) \in Nat
<1>1. SpansLen(side.spans) \in Nat
  BY SpansTake DEF WireSide
<1>2. DeltasLen(side.deltas) \in Nat
  BY DeltasTake DEF WireSide
<1>3. side.counts * Double \in Nat
  BY DEF WireSide, Double
<1> QED
  BY <1>1, <1>2, <1>3, PackedTakes DEF SideLen

\* The spans, the deltas and the counts of a side take what they are announced to.
LEMMA SideTakes ==
  ASSUME NEW side, WireSide(side), Word(SideLen(side))
  PROVE  PutSide(side) \in Seq(Nat) /\ Total(PutSide(side)) = SideLen(side)
<1> DEFINE spans == FlattenSeq([i \in DOMAIN side.spans |->
                       Delimited(SpanLen(side.spans[i]), PutSpan(side.spans[i]))])
           deltas == FlattenSeq([i \in DOMAIN side.deltas |-> PutVarint(Zigzag(side.deltas[i]))])
           size == DeltasLen(side.deltas)
           bytes == side.counts * Double
           a == IF side.deltas = <<>> THEN <<>> ELSE Delimited(size, deltas)
           b == IF side.counts = 0 THEN <<>> ELSE Delimited(bytes, <<bytes>>)
<1>1. spans \in Seq(Nat) /\ Total(spans) = SpansLen(side.spans) /\ Total(spans) \in Nat
  BY SpansTake DEF WireSide
<1>2. /\ deltas \in Seq(Nat) /\ Total(deltas) = size /\ size \in Nat
      /\ (size = 0 <=> side.deltas = <<>>)
  BY DeltasTake DEF WireSide
<1>3. bytes \in Nat /\ (bytes = 0 <=> side.counts = 0)
  BY DEF WireSide, Double
<1>4. SideLen(side) = Total(spans) + PackedLen(size) + PackedLen(bytes)
  BY <1>1 DEF SideLen
<1>5. PutSide(side) = spans \o a \o b
  BY DEF PutSide, PutEach
<1> HIDE DEF spans, deltas, size
<1>6. Word(size) /\ Word(bytes)
  <2> HIDE DEF bytes
  <2>1. /\ PackedLen(size) \in Nat /\ size <= PackedLen(size)
        /\ PackedLen(bytes) \in Nat /\ bytes <= PackedLen(bytes)
    BY <1>2, <1>3, PackedTakes
  <2>2. size <= SideLen(side) /\ bytes <= SideLen(side)
    BY <1>1, <1>2, <1>3, <1>4, <2>1
  <2> QED
    BY <1>2, <1>3, <2>2, WordBelow
<1>7. a \in Seq(Nat) /\ Total(a) = PackedLen(size)
  <2>1. CASE side.deltas = <<>>
    <3>1. a = <<>> /\ PackedLen(size) = 0 /\ <<>> \in Seq(Nat)
      BY <1>2, <2>1 DEF PackedLen
    <3> QED
      BY <3>1, TotalOfNone
  <2>2. CASE side.deltas # <<>>
    <3>1. a = Delimited(size, deltas) /\ PackedLen(size) = DelimitedLen(size)
      BY <1>2, <2>2 DEF PackedLen
    <3> QED
      BY <1>2, <1>6, <3>1, DelimitedTakes
  <2> QED
    BY <2>1, <2>2
<1>8. b \in Seq(Nat) /\ Total(b) = PackedLen(bytes)
  <2>1. CASE side.counts = 0
    <3>1. b = <<>> /\ PackedLen(bytes) = 0 /\ <<>> \in Seq(Nat)
      BY <1>3, <2>1 DEF PackedLen
    <3> QED
      BY <3>1, TotalOfNone
  <2>2. CASE side.counts # 0
    <3>1. b = Delimited(bytes, <<bytes>>) /\ PackedLen(bytes) = DelimitedLen(bytes)
      BY <1>3, <2>2 DEF PackedLen
    <3> HIDE DEF bytes
    <3>2. <<bytes>> \in Seq(Nat) /\ Total(<<bytes>>) = bytes
      BY <1>3, TotalOfOne
    <3> QED
      BY <1>3, <1>6, <3>1, <3>2, DelimitedTakes
  <2> QED
    BY <2>1, <2>2
<1> HIDE DEF a, b, bytes
<1>9. spans \o a \o b \in Seq(Nat) /\ Total(spans \o a \o b) = Total(spans) + Total(a) + Total(b)
  BY <1>1, <1>7, <1>8, TotalOfThree
<1> QED
  BY <1>4, <1>5, <1>7, <1>8, <1>9

\* A histogram takes what it is announced to take.
LEMMA HistogramTakes ==
  ASSUME NEW h, WireHistogram(h), NEW t \in Int, t >= 0 => Word(t), Word(HistogramLen(h, t))
  PROVE  /\ PutHistogram(h, t) \in Seq(Nat)
         /\ Total(PutHistogram(h, t)) = HistogramLen(h, t)
<1> DEFINE eight == <<Double>>
           one == <<1>>
           z == Zigzag(h.schema)
           a == PutCount(h.count)
           b == Field(h.sum # "zero", eight)
           c == Field(h.schema # 0, PutVarint(z))
           d == Field(h.zero_threshold # "zero", eight)
           e == PutCount(h.zero_count)
           f == PutSide(h.negative)
           g == PutSide(h.positive)
           j == Field(h.gauge, one)
           k == Field(t # 0, PutInt64(t))
           la == CountLen(h.count)
           lb == IF h.sum = "zero" THEN 0 ELSE 9
           lc == IF h.schema = 0 THEN 0 ELSE 1 + VarintLen(z)
           ld == IF h.zero_threshold = "zero" THEN 0 ELSE 9
           le == CountLen(h.zero_count)
           lf == SideLen(h.negative)
           lg == SideLen(h.positive)
           lj == IF h.gauge THEN 2 ELSE 0
           lk == IF t = 0 THEN 0 ELSE 1 + Int64Len(t)
<1>1. HistogramLen(h, t) = la + le + lb + lc + ld + lf + lg + lj + lk
  BY DEF HistogramLen
<1>2. PutHistogram(h, t) = a \o b \o c \o d \o e \o f \o g \o j \o k
  BY DEF PutHistogram
<1>3. eight \in Seq(Nat) /\ Total(eight) = 8
  <2>1. Double \in Nat /\ Double = 8
    BY DEF Double
  <2> QED
    BY <2>1, TotalOfOne
<1>4. one \in Seq(Nat) /\ Total(one) = 1
  BY TotalOfOne
<1>5. a \in Seq(Nat) /\ Total(a) = la /\ la \in Nat
  <2>1. WireCount(h.count)
    BY DEF WireHistogram
  <2>2. a \in Seq(Nat) /\ Total(a) = la /\ la \in 0 .. 11
    BY <2>1, CountTakes
  <2> HIDE DEF a, la
  <2> QED
    BY <2>2
<1>6. e \in Seq(Nat) /\ Total(e) = le /\ le \in Nat
  <2>1. WireCount(h.zero_count)
    BY DEF WireHistogram
  <2>2. e \in Seq(Nat) /\ Total(e) = le /\ le \in 0 .. 11
    BY <2>1, CountTakes
  <2> HIDE DEF e, le
  <2> QED
    BY <2>2
<1>7. c \in Seq(Nat) /\ Total(c) = lc /\ lc \in Nat
  <2> DEFINE there == h.schema # 0
  <2>1. /\ PutVarint(z) \in Seq(Nat) /\ Total(PutVarint(z)) = VarintLen(z)
        /\ VarintLen(z) \in 1 .. 10
    BY VarintTakes DEF WireHistogram, WireInt
  <2>2. c = Field(there, PutVarint(z)) /\ there \in BOOLEAN
    OBVIOUS
  <2>3. lc = IF there THEN 1 + VarintLen(z) ELSE 0
    OBVIOUS
  <2> HIDE DEF z, c, lc, there
  <2>4. c \in Seq(Nat) /\ Total(c) = IF there THEN 1 + Total(PutVarint(z)) ELSE 0
    BY <2>1, <2>2, FieldTakes
  <2> QED
    BY <2>1, <2>3, <2>4
<1>8. b \in Seq(Nat) /\ Total(b) = lb /\ lb \in Nat
  <2> DEFINE there == h.sum # "zero"
  <2>1. b = Field(there, eight) /\ there \in BOOLEAN
    OBVIOUS
  <2>2. lb = IF there THEN 9 ELSE 0
    OBVIOUS
  <2> HIDE DEF eight, b, lb, there
  <2>3. b \in Seq(Nat) /\ Total(b) = IF there THEN 1 + Total(eight) ELSE 0
    BY <1>3, <2>1, FieldTakes
  <2> QED
    BY <1>3, <2>2, <2>3
<1>9. d \in Seq(Nat) /\ Total(d) = ld /\ ld \in Nat
  <2> DEFINE there == h.zero_threshold # "zero"
  <2>1. d = Field(there, eight) /\ there \in BOOLEAN
    OBVIOUS
  <2>2. ld = IF there THEN 9 ELSE 0
    OBVIOUS
  <2> HIDE DEF eight, d, ld, there
  <2>3. d \in Seq(Nat) /\ Total(d) = IF there THEN 1 + Total(eight) ELSE 0
    BY <1>3, <2>1, FieldTakes
  <2> QED
    BY <1>3, <2>2, <2>3
<1>10. j \in Seq(Nat) /\ Total(j) = lj /\ lj \in Nat
  <2> DEFINE there == h.gauge
  <2>1. j = Field(there, one) /\ there \in BOOLEAN /\ lj = IF there THEN 2 ELSE 0
    BY DEF WireHistogram
  <2> HIDE DEF one, j, lj, there
  <2>2. j \in Seq(Nat) /\ Total(j) = IF there THEN 1 + Total(one) ELSE 0
    BY <1>4, <2>1, FieldTakes
  <2> QED
    BY <1>4, <2>1, <2>2
<1>11. k \in Seq(Nat) /\ Total(k) = lk /\ lk \in Nat
  <2> DEFINE there == t # 0
  <2>1. /\ PutInt64(t) \in Seq(Nat) /\ Total(PutInt64(t)) = Int64Len(t)
        /\ Int64Len(t) \in 1 .. 10
    BY Int64Takes
  <2>2. k = Field(there, PutInt64(t)) /\ there \in BOOLEAN
    OBVIOUS
  <2>3. lk = IF there THEN 1 + Int64Len(t) ELSE 0
    OBVIOUS
  <2> HIDE DEF k, lk, there
  <2>4. k \in Seq(Nat) /\ Total(k) = IF there THEN 1 + Total(PutInt64(t)) ELSE 0
    BY <2>1, <2>2, FieldTakes
  <2> QED
    BY <2>1, <2>3, <2>4
<1>12. lf \in Nat /\ lg \in Nat
  BY SideIsSized DEF WireHistogram
<1>13. lf <= HistogramLen(h, t) /\ lg <= HistogramLen(h, t)
  <2> HIDE DEF la, lb, lc, ld, le, lf, lg, lj, lk, a, b, c, d, e, j, k
  <2> QED
    BY <1>1, <1>5, <1>6, <1>7, <1>8, <1>9, <1>10, <1>11, <1>12
<1>14. f \in Seq(Nat) /\ Total(f) = lf /\ g \in Seq(Nat) /\ Total(g) = lg
  <2>1. Word(lf) /\ Word(lg)
    BY <1>12, <1>13, WordBelow
  <2> QED
    BY <2>1, SideTakes DEF WireHistogram
<1> HIDE DEF a, b, c, d, e, f, g, j, k, la, lb, lc, ld, le, lf, lg, lj, lk
<1> DEFINE three == a \o b \o c
           five == three \o d \o e
           seven == five \o f \o g
<1>15. three \in Seq(Nat) /\ Total(three) = la + lb + lc
  BY <1>5, <1>7, <1>8, TotalOfThree
<1> HIDE DEF three
<1>16. five \in Seq(Nat) /\ Total(five) = la + lb + lc + ld + le
  BY <1>6, <1>9, <1>15, TotalOfThree
<1> HIDE DEF five
<1>17. seven \in Seq(Nat) /\ Total(seven) = la + lb + lc + ld + le + lf + lg
  BY <1>14, <1>16, TotalOfThree
<1> HIDE DEF seven
<1>18. /\ seven \o j \o k \in Seq(Nat)
       /\ Total(seven \o j \o k) = la + lb + lc + ld + le + lf + lg + lj + lk
  BY <1>10, <1>11, <1>17, TotalOfThree
<1>19. PutHistogram(h, t) = seven \o j \o k
  BY <1>2 DEF seven, five, three
<1>20. la + lb + lc + ld + le + lf + lg + lj + lk = HistogramLen(h, t)
  BY <1>1, <1>5, <1>6, <1>7, <1>8, <1>9, <1>10, <1>11, <1>12
<1> QED
  BY <1>18, <1>19, <1>20

-----------------------------------------------------------------------------
\* A label of a name and a value by their lengths.
WireLabel(label) == label.name \in Nat /\ label.value \in Nat

WireSeries(series) ==
  /\ \E n \in Nat : DOMAIN series.labels = 1 .. n /\ \A i \in 1 .. n : WireLabel(series.labels[i])
  /\ series.histogram # Empty => WireHistogram(series.histogram)
  /\ WireSample(series.sample)

\* A string takes what it is announced to take.
LEMMA StringTakes ==
  ASSUME NEW length \in Nat, Word(length)
  PROVE  PutString(length) \in Seq(Nat) /\ Total(PutString(length)) = StringLen(length)
<1>1. CASE length = 0
  <2>1. PutString(length) = <<>> /\ StringLen(length) = 0 /\ <<>> \in Seq(Nat)
    BY <1>1 DEF PutString, StringLen
  <2> QED
    BY <2>1, TotalOfNone
<1>2. CASE length # 0
  <2>1. PutString(length) = Delimited(length, <<length>>) /\ StringLen(length) = DelimitedLen(length)
    BY <1>2 DEF PutString, StringLen
  <2>2. <<length>> \in Seq(Nat) /\ Total(<<length>>) = length
    BY TotalOfOne
  <2> QED
    BY <2>1, <2>2, DelimitedTakes
<1> QED
  BY <1>1, <1>2

\* Lengths are sizes.
LEMMA LengthsAreSizes ==
  ASSUME NEW x \in Nat
  PROVE  /\ DelimitedLen(x) \in Nat /\ x <= DelimitedLen(x) /\ DelimitedLen(x) >= 2
         /\ StringLen(x) \in Nat /\ x <= StringLen(x)
<1>1. VarintLen(x) \in Nat /\ VarintLen(x) >= 1
  BY VarintIsSized
<1> QED
  BY <1>1 DEF StringLen, DelimitedLen

\* A label takes what it is announced to take.
LEMMA LabelTakes ==
  ASSUME NEW label, WireLabel(label), Word(LabelLen(label))
  PROVE  /\ PutLabel(label) \in Seq(Nat) /\ Total(PutLabel(label)) = DelimitedLen(LabelLen(label))
<1> DEFINE name == label.name
           value == label.value
           body == PutString(name) \o PutString(value)
<1>1. name \in Nat /\ value \in Nat /\ LabelLen(label) = StringLen(name) + StringLen(value)
  BY DEF WireLabel, LabelLen
<1>2. PutLabel(label) = Delimited(LabelLen(label), body)
  BY DEF PutLabel
<1> HIDE DEF name, value
<1>3. /\ StringLen(name) \in Nat /\ name <= StringLen(name)
      /\ StringLen(value) \in Nat /\ value <= StringLen(value)
  BY <1>1, LengthsAreSizes
<1>4. name <= LabelLen(label) /\ value <= LabelLen(label) /\ LabelLen(label) \in Nat
  BY <1>1, <1>3
<1>5. Word(name) /\ Word(value)
  BY <1>1, <1>4, WordBelow
<1>6. /\ PutString(name) \in Seq(Nat) /\ Total(PutString(name)) = StringLen(name)
      /\ PutString(value) \in Seq(Nat) /\ Total(PutString(value)) = StringLen(value)
  BY <1>1, <1>5, StringTakes
<1>7. body \in Seq(Nat) /\ Total(body) = LabelLen(label)
  BY <1>1, <1>6, TotalOfBoth
<1> HIDE DEF body
<1> QED
  BY <1>2, <1>4, <1>7, DelimitedTakes

\* The value of a series has a length.
LEMMA HistogramIsSized ==
  ASSUME NEW h, WireHistogram(h), NEW t \in Int, t >= 0 => Word(t)
  PROVE  HistogramLen(h, t) \in Nat
<1> DEFINE z == Zigzag(h.schema)
           lb == IF h.sum = "zero" THEN 0 ELSE 9
           lc == IF h.schema = 0 THEN 0 ELSE 1 + VarintLen(z)
           ld == IF h.zero_threshold = "zero" THEN 0 ELSE 9
           lj == IF h.gauge THEN 2 ELSE 0
           lk == IF t = 0 THEN 0 ELSE 1 + Int64Len(t)
<1>1. CountLen(h.count) \in 0 .. 11 /\ CountLen(h.zero_count) \in 0 .. 11
  BY CountTakes DEF WireHistogram
<1>2. lb \in Nat /\ ld \in Nat /\ lj \in Nat
  OBVIOUS
<1>3. lc \in Nat
  <2>1. VarintLen(z) \in 1 .. 10
    BY VarintTakes DEF WireHistogram, WireInt
  <2> HIDE DEF z
  <2> QED
    BY <2>1
<1>4. lk \in Nat
  <2>1. Int64Len(t) \in 1 .. 10
    BY Int64Takes
  <2> QED
    BY <2>1
<1>5. SideLen(h.negative) \in Nat /\ SideLen(h.positive) \in Nat
  BY SideIsSized DEF WireHistogram
<1>6. HistogramLen(h, t)
        = CountLen(h.count) + CountLen(h.zero_count) + lb + lc + ld
            + SideLen(h.negative) + SideLen(h.positive) + lj + lk
  BY DEF HistogramLen
<1> HIDE DEF lb, lc, ld, lj, lk
<1> QED
  BY <1>1, <1>2, <1>3, <1>4, <1>5, <1>6

\* The value of a series takes what it is announced to take.
LEMMA ValueTakes ==
  ASSUME NEW series, WireSeries(series)
  PROVE  /\ ValueLen(series) \in Nat
         /\ Word(ValueLen(series)) =>
              /\ PutValue(series) \in Seq(Nat)
              /\ Total(PutValue(series)) = DelimitedLen(ValueLen(series))
<1> DEFINE t == series.sample.timestamp
           h == series.histogram
<1>1. t \in Int /\ (t >= 0 => Word(t)) /\ WireSample(series.sample)
  BY DEF WireSeries, WireSample
<1>2. CASE series.histogram # Empty
  <2>1. WireHistogram(h)
    BY <1>2 DEF WireSeries
  <2>2. ValueLen(series) = HistogramLen(h, t)
    BY <1>2 DEF ValueLen
  <2>3. PutValue(series) = Delimited(HistogramLen(h, t), PutHistogram(h, t))
    BY <1>2 DEF PutValue
  <2> HIDE DEF h, t
  <2>4. HistogramLen(h, t) \in Nat
    BY <1>1, <2>1, HistogramIsSized
  <2>5. ASSUME Word(HistogramLen(h, t))
        PROVE  /\ PutValue(series) \in Seq(Nat)
               /\ Total(PutValue(series)) = DelimitedLen(HistogramLen(h, t))
    <3>1. /\ PutHistogram(h, t) \in Seq(Nat)
          /\ Total(PutHistogram(h, t)) = HistogramLen(h, t)
      BY <1>1, <2>1, <2>5, HistogramTakes
    <3> QED
      BY <2>3, <2>4, <2>5, <3>1, DelimitedTakes
  <2> QED
    BY <2>2, <2>4, <2>5
<1>3. CASE series.histogram = Empty
  <2> DEFINE s == series.sample
  <2>1. ValueLen(series) = SampleLen(s) /\ PutValue(series) = Delimited(SampleLen(s), PutSample(s))
    BY <1>3 DEF ValueLen, PutValue
  <2> HIDE DEF s
  <2>2. /\ PutSample(s) \in Seq(Nat) /\ SampleLen(s) \in 0 .. 20
        /\ Total(PutSample(s)) = SampleLen(s)
    BY <1>1, SampleTakes DEF s
  <2>3. SampleLen(s) \in Nat
    BY <2>2
  <2> QED
    BY <2>1, <2>2, <2>3, DelimitedTakes
<1> QED
  BY <1>2, <1>3

\* Every length that is announced, of a label, of a value, of the series, is the
\* number of bytes that follow, for every series that takes less than 2^64 bytes: the
\* lengths wire_len computes are those of what put_fields writes.
THEOREM LengthsAreExact ==
  ASSUME NEW series, WireSeries(series), Word(SeriesLen(series))
  PROVE  LengthsMatch(series)
<1>1. PICK n \in Nat : /\ DOMAIN series.labels = 1 .. n
                       /\ \A i \in 1 .. n : WireLabel(series.labels[i])
  BY DEF WireSeries
<1> DEFINE pieces == [i \in 1 .. n |-> PutLabel(series.labels[i])]
           sizes == [i \in 1 .. n |-> DelimitedLen(LabelLen(series.labels[i]))]
           size == ValueLen(series)
<1>2. SeriesLen(series) = Total(sizes) + DelimitedLen(size)
  BY <1>1 DEF SeriesLen, SumOver
<1>3. PutSeries(series) = FlattenSeq(pieces) \o PutValue(series)
  BY <1>1 DEF PutSeries, PutEach
<1>4. ASSUME NEW i \in 1 .. n
      PROVE  LabelLen(series.labels[i]) \in Nat /\ sizes[i] \in Nat
             /\ LabelLen(series.labels[i]) <= sizes[i]
  <2> DEFINE label == series.labels[i]
  <2>1. WireLabel(label)
    BY <1>1
  <2>2. sizes[i] = DelimitedLen(LabelLen(label))
    OBVIOUS
  <2> HIDE DEF label, sizes
  <2>3. LabelLen(label) \in Nat
    BY <2>1, LengthsAreSizes DEF WireLabel, LabelLen
  <2>4. sizes[i] \in Nat /\ LabelLen(label) <= sizes[i]
    BY <2>2, <2>3, LengthsAreSizes
  <2> QED
    BY <2>3, <2>4 DEF label
<1>5. sizes \in [1 .. n -> Nat]
  BY <1>4
<1>6. \A i \in 1 .. n : /\ pieces[i] = PutLabel(series.labels[i])
                        /\ sizes[i] = DelimitedLen(LabelLen(series.labels[i]))
  OBVIOUS
<1>7. DOMAIN pieces = 1 .. n /\ pieces = [i \in 1 .. n |-> pieces[i]]
  OBVIOUS
<1>8. size \in Nat /\ (Word(size) => /\ PutValue(series) \in Seq(Nat)
                                     /\ Total(PutValue(series)) = DelimitedLen(size))
  BY ValueTakes
<1> HIDE DEF pieces, sizes, size
<1>9. Total(sizes) \in Nat /\ DelimitedLen(size) \in Nat /\ size <= DelimitedLen(size)
  BY <1>5, <1>8, TotalIsNat, LengthsAreSizes
<1>10. Word(size)
  <2>1. size <= SeriesLen(series)
    BY <1>2, <1>8, <1>9
  <2> QED
    BY <1>8, <2>1, WordBelow
<1>11. ASSUME NEW i \in 1 .. n
       PROVE  pieces[i] \in Seq(Nat) /\ Total(pieces[i]) = sizes[i]
  <2> DEFINE label == series.labels[i]
  <2>1. LabelLen(label) \in Nat /\ sizes[i] \in Nat /\ LabelLen(label) <= sizes[i]
    BY <1>4
  <2>2. sizes[i] <= Total(sizes)
    BY <1>5, TotalAtLeast
  <2>3. WireLabel(label) /\ pieces[i] = PutLabel(label) /\ sizes[i] = DelimitedLen(LabelLen(label))
    BY <1>1, <1>6
  <2> HIDE DEF label
  <2>4. LabelLen(label) <= SeriesLen(series)
    BY <1>2, <1>9, <2>1, <2>2
  <2>5. Word(LabelLen(label))
    BY <2>1, <2>4, WordBelow
  <2> QED
    BY <2>3, <2>5, LabelTakes
<1>12. pieces \in [1 .. n -> Seq(Nat)]
  BY <1>7, <1>11
<1>13. FlattenSeq(pieces) \in Seq(Nat) /\ Total(FlattenSeq(pieces)) = Total(sizes)
  <2>1. \A i \in 1 .. n : Total(pieces[i]) = sizes[i]
    BY <1>11
  <2> QED
    BY <1>5, <1>12, <2>1, EachTakes
<1>14. SeriesLen(series) = Total(PutSeries(series))
  BY <1>2, <1>3, <1>8, <1>10, <1>13, TotalOfBoth
<1>15. DelimitedLen(ValueLen(series)) = Total(PutValue(series))
  BY <1>8, <1>10 DEF size
<1>16. \A i \in DOMAIN series.labels :
         DelimitedLen(LabelLen(series.labels[i])) = Total(PutLabel(series.labels[i]))
  BY <1>1, <1>6, <1>11
<1> QED
  BY <1>14, <1>15, <1>16 DEF LengthsMatch

-----------------------------------------------------------------------------
\* A step of either of the folds of a request: a label of a series, or a series.
StepOf(kind, x, y, table, i) ==
  IF kind = "label" THEN AddLabel(table, x, y, i)
  ELSE AddSeries(table, x[i], IF i = 1 THEN Empty ELSE x[i - 1])

\* What a fold of such steps goes through.
Went(h, n, kind, x, y, base) ==
  /\ h[0] = base
  /\ \A i \in 1 .. n : h[i] = StepOf(kind, x, y, h[i - 1], i)

\* The greatest of some positions is one of them.
LEMMA MaxIsMember ==
  ASSUME NEW n \in Nat, NEW s \in SUBSET (1 .. n), s # {}
  PROVE  Max(s) \in s
<1> DEFINE step == [i \in 1 .. n |-> [a \in {0} |-> a]]
<1>1. step \in [1 .. n -> [{0} -> {0}]] /\ 0 \in {0}
  OBVIOUS
<1> HIDE DEF step
<1>2. PICK f \in [SUBSET (1 .. n) -> {0}] : GoesBy(f, n, 0, step)
  BY <1>1, FoldIsDefined
<1> QED
  BY <1>2 DEF GoesBy

\* A function of the sets of positions that goes such a step for the last one.
FoldsTable(f, n, kind, x, y, base) ==
  f = [s \in SUBSET (1 .. n) |->
        IF s = {} THEN base ELSE StepOf(kind, x, y, f[s \ {Max(s)}], Max(s))]

\* A fold of such steps is defined, whatever the tables they are given.
LEMMA TableFoldIsDefined ==
  ASSUME NEW n \in Nat, NEW kind, NEW x, NEW y, NEW base
  PROVE  \E f : FoldsTable(f, n, kind, x, y, base)
<1> DEFINE Good(f, m) == f = [s \in SUBSET (1 .. m) |->
                                IF s = {} THEN base
                                ELSE StepOf(kind, x, y, f[s \ {Max(s)}], Max(s))]
           Done == {m \in 0 .. n : \E f : Good(f, m)}
<1>1. 0 \in Done
  <2> DEFINE f == [s \in SUBSET (1 .. 0) |-> base]
  <2>1. \A s \in SUBSET (1 .. 0) : s = {}
    OBVIOUS
  <2>2. Good(f, 0)
    BY <2>1
  <2> QED
    BY <2>2
<1>2. ASSUME NEW m \in 1 .. n, m - 1 \in Done
      PROVE  m \in Done
  <2>1. PICK f : Good(f, m - 1)
    BY <1>2
  <2> DEFINE g == [s \in SUBSET (1 .. m) |->
                     IF m \in s THEN StepOf(kind, x, y, f[s \ {m}], m) ELSE f[s]]
  <2>2. ASSUME NEW s \in SUBSET (1 .. m)
        PROVE  g[s] = IF s = {} THEN base ELSE StepOf(kind, x, y, g[s \ {Max(s)}], Max(s))
    <3>1. CASE m \in s
      <4>1. Max(s) = m
        BY <3>1, MaxOfTop
      <4>2. g[s \ {m}] = f[s \ {m}] /\ g[s] = StepOf(kind, x, y, f[s \ {m}], m)
        BY <3>1
      <4> HIDE DEF g
      <4> QED
        BY <3>1, <4>1, <4>2
    <3>2. CASE m \notin s
      <4>1. s \in SUBSET (1 .. m - 1) /\ g[s] = f[s]
        BY <3>2
      <4>2. f[s] = IF s = {} THEN base ELSE StepOf(kind, x, y, f[s \ {Max(s)}], Max(s))
        BY <2>1, <4>1
      <4>3. g[s \ {Max(s)}] = f[s \ {Max(s)}]
        BY <3>2
      <4> HIDE DEF g
      <4> QED
        BY <4>1, <4>2, <4>3
    <3> QED
      BY <3>1, <3>2
  <2>3. g = [s \in SUBSET (1 .. m) |-> g[s]]
    OBVIOUS
  <2> HIDE DEF g
  <2>4. Good(g, m)
    BY <2>2, <2>3
  <2>5. m \in 0 .. n
    OBVIOUS
  <2> HIDE DEF Good
  <2> QED
    BY <2>4, <2>5
<1> HIDE DEF Done
<1>3. n \in Done
  <2>1. 0 .. n \subseteq Done
    BY <1>1, <1>2, BoundedInduction
  <2> QED
    BY <2>1
<1> QED
  BY <1>3 DEF Done, FoldsTable

\* The steps of the fold of an operation are those of its function on the sets of
\* positions.
LEMMA TableSteps ==
  ASSUME NEW n \in Nat, NEW kind, NEW x, NEW y, NEW base, NEW f,
         FoldsTable(f, n, kind, x, y, base)
  PROVE  \E h : Went(h, n, kind, x, y, base) /\ h[n] = f[1 .. n]
<1> DEFINE h == [i \in 0 .. n |-> f[1 .. i]]
<1>1. f[{}] = base
  BY DEF FoldsTable
<1>2. ASSUME NEW i \in 1 .. n
      PROVE  f[1 .. i] = StepOf(kind, x, y, f[1 .. i - 1], i)
  <2>1. /\ 1 .. i \in SUBSET (1 .. n) /\ 1 .. i # {}
        /\ Max(1 .. i) = i /\ (1 .. i) \ {i} = 1 .. i - 1
    BY UpTo
  <2>2. f[1 .. i] = StepOf(kind, x, y, f[(1 .. i) \ {Max(1 .. i)}], Max(1 .. i))
    BY <2>1 DEF FoldsTable
  <2> QED
    BY <2>1, <2>2
<1>3. h[0] = base
  <2>1. 1 .. 0 = {} /\ 0 \in 0 .. n
    OBVIOUS
  <2> QED
    BY <1>1, <2>1
<1>4. ASSUME NEW i \in 1 .. n
      PROVE  h[i] = StepOf(kind, x, y, h[i - 1], i)
  <2>1. h[i] = f[1 .. i] /\ h[i - 1] = f[1 .. i - 1]
    <3>1. i \in 0 .. n /\ i - 1 \in 0 .. n
      OBVIOUS
    <3> QED
      BY <3>1
  <2> HIDE DEF h
  <2> QED
    BY <1>2, <2>1
<1>5. h[n] = f[1 .. n]
  OBVIOUS
<1> HIDE DEF h
<1> QED
  BY <1>3, <1>4, <1>5 DEF Went

\* The folds of a request.
AddLabels(series, previous, base) ==
  FoldLeft(LAMBDA t, k : AddLabel(t, series, previous, k), base, [k \in DOMAIN series |-> k])
AddAll(batch, base) ==
  FoldLeft(LAMBDA t, i : AddSeries(t, batch[i], IF i = 1 THEN Empty ELSE batch[i - 1]),
           base, [i \in DOMAIN batch |-> i])

\* The labels of a series are added one after the other.
LEMMA LabelSteps ==
  ASSUME NEW n \in Nat, NEW series, DOMAIN series = 1 .. n, NEW previous, NEW base
  PROVE  \E h : /\ Went(h, n, "label", series, previous, base)
                /\ h[n] = AddLabels(series, previous, base)
<1> DEFINE Follows(f) == f = [s \in SUBSET (1 .. n) |->
                                IF s = {} THEN base
                                ELSE AddLabel(f[s \ {Max(s)}], series, previous,
                                              [k \in 1 .. n |-> k][Max(s)])]
           f == CHOOSE f : Follows(f)
<1>1. AddLabels(series, previous, base) = f[1 .. n]
  <2>1. DOMAIN [k \in 1 .. n |-> k] = 1 .. n
    OBVIOUS
  <2> QED
    BY <2>1 DEF AddLabels, FoldLeft, MapThenFoldSet
<1>2. PICK g : FoldsTable(g, n, "label", series, previous, base)
  BY TableFoldIsDefined
<1>3. ASSUME NEW s \in SUBSET (1 .. n)
      PROVE  g[s] = IF s = {} THEN base
                    ELSE AddLabel(g[s \ {Max(s)}], series, previous, [k \in 1 .. n |-> k][Max(s)])
  <2>1. s # {} => [k \in 1 .. n |-> k][Max(s)] = Max(s)
    BY MaxIsMember
  <2>2. g[s] = IF s = {} THEN base
               ELSE StepOf("label", series, previous, g[s \ {Max(s)}], Max(s))
    BY <1>2 DEF FoldsTable
  <2> QED
    BY <2>1, <2>2 DEF StepOf
<1>4. g = [s \in SUBSET (1 .. n) |-> g[s]]
  BY <1>2 DEF FoldsTable
<1>5. Follows(g)
  BY <1>3, <1>4
<1>6. Follows(f)
  <2> HIDE DEF Follows
  <2> QED
    BY <1>5
<1> HIDE DEF f
<1>7. ASSUME NEW s \in SUBSET (1 .. n)
      PROVE  f[s] = IF s = {} THEN base
                    ELSE StepOf("label", series, previous, f[s \ {Max(s)}], Max(s))
  <2>1. s # {} => [k \in 1 .. n |-> k][Max(s)] = Max(s)
    BY MaxIsMember
  <2>2. f[s] = IF s = {} THEN base
               ELSE AddLabel(f[s \ {Max(s)}], series, previous, [k \in 1 .. n |-> k][Max(s)])
    BY <1>6
  <2> QED
    BY <2>1, <2>2 DEF StepOf
<1>8. f = [s \in SUBSET (1 .. n) |-> f[s]]
  BY <1>6
<1>9. FoldsTable(f, n, "label", series, previous, base)
  <2> HIDE DEF Follows
  <2> QED
    BY <1>7, <1>8 DEF FoldsTable
<1> HIDE DEF Follows
<1>10. PICK h : Went(h, n, "label", series, previous, base) /\ h[n] = f[1 .. n]
  BY <1>9, TableSteps
<1> QED
  BY <1>1, <1>10

\* The series of a batch are added one after the other.
LEMMA SeriesSteps ==
  ASSUME NEW n \in Nat, NEW batch, DOMAIN batch = 1 .. n, NEW base
  PROVE  \E h : /\ Went(h, n, "series", batch, Empty, base)
                /\ h[n] = AddAll(batch, base)
<1> DEFINE at(s) == [i \in 1 .. n |-> i][Max(s)]
           Follows(f) == f = [s \in SUBSET (1 .. n) |->
                                IF s = {} THEN base
                                ELSE AddSeries(f[s \ {Max(s)}], batch[at(s)],
                                               IF at(s) = 1 THEN Empty ELSE batch[at(s) - 1])]
           f == CHOOSE f : Follows(f)
<1>1. AddAll(batch, base) = f[1 .. n]
  <2>1. DOMAIN [i \in 1 .. n |-> i] = 1 .. n
    OBVIOUS
  <2> QED
    BY <2>1 DEF AddAll, FoldLeft, MapThenFoldSet
<1>2. PICK g : FoldsTable(g, n, "series", batch, Empty, base)
  BY TableFoldIsDefined
<1>3. \A table, i : StepOf("series", batch, Empty, table, i)
                      = AddSeries(table, batch[i], IF i = 1 THEN Empty ELSE batch[i - 1])
  BY DEF StepOf
<1>4. \A s \in SUBSET (1 .. n) : s # {} => at(s) = Max(s)
  BY MaxIsMember
<1> HIDE DEF at
<1>5. ASSUME NEW s \in SUBSET (1 .. n)
      PROVE  g[s] = IF s = {} THEN base
                    ELSE AddSeries(g[s \ {Max(s)}], batch[at(s)],
                                   IF at(s) = 1 THEN Empty ELSE batch[at(s) - 1])
  <2>1. g[s] = IF s = {} THEN base
               ELSE StepOf("series", batch, Empty, g[s \ {Max(s)}], Max(s))
    BY <1>2 DEF FoldsTable
  <2> QED
    BY <1>3, <1>4, <2>1
<1>6. g = [s \in SUBSET (1 .. n) |-> g[s]]
  BY <1>2 DEF FoldsTable
<1>7. Follows(g)
  BY <1>5, <1>6
<1>8. Follows(f)
  <2> HIDE DEF Follows
  <2> QED
    BY <1>7
<1> HIDE DEF f
<1>9. ASSUME NEW s \in SUBSET (1 .. n)
      PROVE  f[s] = IF s = {} THEN base
                    ELSE StepOf("series", batch, Empty, f[s \ {Max(s)}], Max(s))
  <2>1. f[s] = IF s = {} THEN base
               ELSE AddSeries(f[s \ {Max(s)}], batch[at(s)],
                              IF at(s) = 1 THEN Empty ELSE batch[at(s) - 1])
    BY <1>8
  <2> QED
    BY <1>3, <1>4, <2>1
<1>10. f = [s \in SUBSET (1 .. n) |-> f[s]]
  BY <1>8
<1> HIDE DEF Follows
<1>11. FoldsTable(f, n, "series", batch, Empty, base)
  BY <1>9, <1>10 DEF FoldsTable
<1>12. PICK h : Went(h, n, "series", batch, Empty, base) /\ h[n] = f[1 .. n]
  BY <1>11, TableSteps
<1> QED
  BY <1>1, <1>12

-----------------------------------------------------------------------------
\* The labels of a series in a request: two texts each.
Pairs(Texts) == [name : Texts, value : Texts]

\* A table of a request: the symbols begin with the empty string and are distinct,
\* there is one more of them than there are references at most, and every reference is
\* one of them.
IsTable(t, Texts) ==
  /\ t \in [symbols : Seq(Texts), refs : Seq(Nat), packed : Seq(Nat)]
  /\ Len(t.symbols) >= 1 /\ t.symbols[1] = Empty
  /\ \A i, j \in 1 .. Len(t.symbols) : t.symbols[i] = t.symbols[j] => i = j
  /\ Len(t.symbols) <= Len(t.refs) + 1
  /\ \A j \in 1 .. Len(t.refs) : t.refs[j] < Len(t.symbols)

\* What the j-th reference says.
Says(t, j) == t.symbols[t.refs[j] + 1]

\* What is in a table stays.
Grows(t, u) ==
  /\ Len(t.refs) <= Len(u.refs) /\ Len(t.symbols) <= Len(u.symbols)
  /\ \A j \in 1 .. Len(t.refs) : u.refs[j] = t.refs[j]
  /\ \A j \in 1 .. Len(t.symbols) : u.symbols[j] = t.symbols[j]

\* A table keeps saying what it said.
LEMMA GrowsSays ==
  ASSUME NEW Texts, NEW t, NEW u, IsTable(t, Texts), IsTable(u, Texts), Grows(t, u)
  PROVE  \A j \in 1 .. Len(t.refs) : Says(u, j) = Says(t, j)
<1> TAKE j \in 1 .. Len(t.refs)
<1>1. t.refs \in Seq(Nat) /\ t.symbols \in Seq(Texts)
  BY DEF IsTable
<1>2. t.refs[j] \in Nat /\ t.refs[j] < Len(t.symbols) /\ u.refs[j] = t.refs[j]
  BY <1>1, SMTT(30) DEF IsTable, Grows
<1>3. t.refs[j] + 1 \in 1 .. Len(t.symbols)
  BY <1>1, <1>2
<1> QED
  BY <1>2, <1>3 DEF Says, Grows

\* Growing twice is growing.
LEMMA GrowsOn ==
  ASSUME NEW Texts, NEW t, NEW u, NEW v, IsTable(t, Texts), IsTable(u, Texts), IsTable(v, Texts),
         Grows(t, u), Grows(u, v)
  PROVE  Grows(t, v)
<1>1. /\ Len(t.refs) \in Nat /\ Len(u.refs) \in Nat /\ Len(v.refs) \in Nat
      /\ Len(t.symbols) \in Nat /\ Len(u.symbols) \in Nat /\ Len(v.symbols) \in Nat
  BY DEF IsTable
<1>2. /\ Len(t.refs) <= Len(u.refs) /\ Len(u.refs) <= Len(v.refs)
      /\ Len(t.symbols) <= Len(u.symbols) /\ Len(u.symbols) <= Len(v.symbols)
  BY DEF Grows
<1>3. Len(t.refs) <= Len(v.refs) /\ Len(t.symbols) <= Len(v.symbols)
  BY <1>1, <1>2
<1>4. ASSUME NEW j \in 1 .. Len(t.refs) PROVE v.refs[j] = t.refs[j]
  <2>1. j \in 1 .. Len(u.refs)
    BY <1>1, <1>2
  <2> QED
    BY <2>1 DEF Grows
<1>5. ASSUME NEW j \in 1 .. Len(t.symbols) PROVE v.symbols[j] = t.symbols[j]
  <2>1. j \in 1 .. Len(u.symbols)
    BY <1>1, <1>2
  <2> QED
    BY <2>1 DEF Grows
<1> QED
  BY <1>3, <1>4, <1>5 DEF Grows

\* A reference to a symbol of the table is added.
LEMMA RefAdded ==
  ASSUME NEW Texts, NEW t, IsTable(t, Texts), NEW r \in Nat, r < Len(t.symbols), NEW u,
         u = [t EXCEPT !.refs = Append(@, r)]
  PROVE  /\ IsTable(u, Texts) /\ Grows(t, u) /\ u.packed = t.packed
         /\ Len(u.refs) = Len(t.refs) + 1 /\ Says(u, Len(t.refs) + 1) = t.symbols[r + 1]
<1>1. /\ t \in [symbols : Seq(Texts), refs : Seq(Nat), packed : Seq(Nat)]
      /\ t.refs \in Seq(Nat) /\ t.symbols \in Seq(Texts)
  BY DEF IsTable
<1>2. u.refs = Append(t.refs, r) /\ u.symbols = t.symbols /\ u.packed = t.packed
  BY <1>1
<1> DEFINE n == Len(t.refs)
           refs == u.refs
<1>3. /\ refs \in Seq(Nat) /\ Len(refs) = n + 1 /\ refs[n + 1] = r
      /\ \A i \in 1 .. n : refs[i] = t.refs[i]
  BY <1>1, <1>2, Appended
<1>4. u \in [symbols : Seq(Texts), refs : Seq(Nat), packed : Seq(Nat)]
  BY <1>1, <1>2, <1>3
<1>5. n \in Nat /\ Len(t.symbols) \in Nat /\ Len(t.symbols) <= n + 1
      /\ \A j \in 1 .. n : t.refs[j] < Len(t.symbols)
  BY <1>1 DEF IsTable
<1> HIDE DEF n, refs
<1>6. \A j \in 1 .. n + 1 : refs[j] < Len(u.symbols)
  <2> TAKE j \in 1 .. n + 1
  <2>1. j = n + 1 \/ j \in 1 .. n
    BY <1>5
  <2> QED
    BY <1>2, <1>3, <1>5, <2>1
<1>7. Len(refs) = n + 1 /\ Len(u.symbols) <= Len(refs) + 1
  BY <1>2, <1>3, <1>5
<1>8. IsTable(u, Texts)
  BY <1>2, <1>4, <1>6, <1>7 DEF IsTable, refs
<1>9. Grows(t, u)
  <2>1. n <= Len(refs)
    BY <1>5, <1>7
  <2> QED
    BY <1>2, <1>3, <1>5, <2>1 DEF Grows, n, refs
<1>10. Says(u, n + 1) = t.symbols[r + 1]
  BY <1>2, <1>3 DEF Says, refs
<1> QED
  BY <1>2, <1>7, <1>8, <1>9, <1>10 DEF n, refs

\* intern adds one reference that says the text, and nothing else but the text.
LEMMA InternSays ==
  ASSUME NEW Texts, NEW t, IsTable(t, Texts), NEW text \in Texts
  PROVE  LET u == Intern(t, text)
         IN /\ IsTable(u, Texts) /\ Grows(t, u) /\ u.packed = t.packed
            /\ Len(u.refs) = Len(t.refs) + 1 /\ Says(u, Len(t.refs) + 1) = text
<1> DEFINE u == Intern(t, text)
           known == SelectInSeq(t.symbols, LAMBDA symbol : symbol = text)
           Where == {i \in 1 .. Len(t.symbols) : t.symbols[i] = text}
<1>1. /\ t \in [symbols : Seq(Texts), refs : Seq(Nat), packed : Seq(Nat)]
      /\ t.refs \in Seq(Nat) /\ t.symbols \in Seq(Texts) /\ Len(t.symbols) \in Nat
  BY DEF IsTable
<1>2. known = IF Where # {} THEN Min(Where) ELSE 0
  BY DEF SelectInSeq
<1>3. u = IF known > 0 THEN [t EXCEPT !.refs = Append(@, known - 1)]
          ELSE [t EXCEPT !.symbols = Append(@, text), !.refs = Append(@, Len(t.symbols))]
  BY DEF Intern
<1> HIDE DEF u, known
<1>4. CASE Where # {}
  <2>1. known \in Where
    <3>1. Where \in SUBSET Nat
      OBVIOUS
    <3> HIDE DEF Where
    <3> QED
      BY <1>2, <1>4, <3>1, MinIsMember
  <2> DEFINE r == known - 1
  <2>2. known \in 1 .. Len(t.symbols) /\ t.symbols[known] = text
    BY <2>1
  <2>3. r \in Nat /\ r < Len(t.symbols) /\ t.symbols[r + 1] = text /\ known > 0
    BY <1>1, <2>2
  <2>4. u = [t EXCEPT !.refs = Append(@, r)]
    BY <1>3, <2>3
  <2> HIDE DEF r
  <2> QED
    BY <2>3, <2>4, RefAdded DEF u
<1>5. CASE Where = {}
  <2> DEFINE n == Len(t.symbols)
             m == Len(t.refs)
             symbols == u.symbols
             refs == u.refs
  <2>1. known = 0
    BY <1>2, <1>5
  <2>2. u = [t EXCEPT !.symbols = Append(@, text), !.refs = Append(@, Len(t.symbols))]
    BY <1>3, <2>1
  <2>3. /\ symbols = Append(t.symbols, text) /\ refs = Append(t.refs, n)
        /\ u.packed = t.packed /\ u = [symbols |-> symbols, refs |-> refs, packed |-> t.packed]
    BY <1>1, <2>2
  <2>4. /\ symbols \in Seq(Texts) /\ Len(symbols) = n + 1 /\ symbols[n + 1] = text
        /\ \A i \in 1 .. n : symbols[i] = t.symbols[i]
    BY <1>1, <2>3, Appended
  <2>5. /\ refs \in Seq(Nat) /\ Len(refs) = m + 1 /\ refs[m + 1] = n
        /\ \A i \in 1 .. m : refs[i] = t.refs[i]
    BY <1>1, <2>3, Appended
  <2>6. /\ n \in Nat /\ m \in Nat /\ n >= 1 /\ t.symbols[1] = Empty /\ n <= m + 1
        /\ \A i, j \in 1 .. n : t.symbols[i] = t.symbols[j] => i = j
        /\ \A j \in 1 .. m : t.refs[j] < n /\ t.refs[j] \in Nat
        /\ t.packed \in Seq(Nat)
    BY <1>1 DEF IsTable
  <2>7. \A i \in 1 .. n : t.symbols[i] # text
    BY <1>5
  <2> HIDE DEF n, m, symbols, refs
  <2>8. u \in [symbols : Seq(Texts), refs : Seq(Nat), packed : Seq(Nat)]
    BY <2>3, <2>4, <2>5, <2>6
  <2>9. \A i, j \in 1 .. n + 1 : symbols[i] = symbols[j] => i = j
    <3> TAKE i, j \in 1 .. n + 1
    <3>1. (i = n + 1 \/ i \in 1 .. n) /\ (j = n + 1 \/ j \in 1 .. n)
      BY <2>6
    <3> QED
      BY <2>4, <2>6, <2>7, <3>1
  <2>10. \A j \in 1 .. m + 1 : refs[j] < n + 1
    <3> TAKE j \in 1 .. m + 1
    <3>1. CASE j = m + 1
      BY <2>5, <2>6, <3>1
    <3>2. CASE j # m + 1
      <4>1. j \in 1 .. m
        BY <2>6, <3>2
      <4>2. refs[j] = t.refs[j] /\ t.refs[j] < n /\ t.refs[j] \in Nat
        BY <2>5, <2>6, <4>1
      <4> QED
        BY <2>6, <4>2
    <3> QED
      BY <3>1, <3>2
  <2>11. symbols[1] = Empty /\ n + 1 >= 1 /\ n + 1 <= (m + 1) + 1
    BY <2>4, <2>6
  <2>12. IsTable(u, Texts)
    <3>1. Len(u.symbols) = n + 1 /\ Len(u.refs) = m + 1
      BY <2>4, <2>5 DEF symbols, refs
    <3> QED
      BY <2>8, <2>9, <2>10, <2>11, <3>1 DEF IsTable, symbols, refs
  <2>13. Grows(t, u)
    <3>1. m <= Len(refs) /\ n <= Len(symbols)
      BY <2>4, <2>5, <2>6
    <3> QED
      BY <2>4, <2>5, <3>1 DEF Grows, symbols, refs, n, m
  <2>14. Says(u, m + 1) = text
    BY <2>4, <2>5 DEF Says, symbols, refs
  <2>15. Len(u.refs) = m + 1 /\ u.packed = t.packed
    BY <2>3, <2>5 DEF refs
  <2> QED
    BY <2>12, <2>13, <2>14, <2>15 DEF u, m
<1> QED
  BY <1>4, <1>5

\* A reference that is taken over from the series before says the text as well.
LEMMA ReferSays ==
  ASSUME NEW Texts, NEW t, IsTable(t, Texts), NEW text \in Texts, NEW same \in BOOLEAN,
         NEW distance \in Nat,
         same => LET j == Len(t.refs) + 1 - distance
                 IN j \in 1 .. Len(t.refs) /\ Says(t, j) = text
  PROVE  LET u == Refer(t, text, same, distance)
         IN /\ IsTable(u, Texts) /\ Grows(t, u) /\ u.packed = t.packed
            /\ Len(u.refs) = Len(t.refs) + 1 /\ Says(u, Len(t.refs) + 1) = text
<1> DEFINE u == Refer(t, text, same, distance)
<1>1. CASE same
  <2> DEFINE j == Len(t.refs) + 1 - distance
             r == t.refs[j]
  <2>1. j \in 1 .. Len(t.refs) /\ Says(t, j) = text
    BY <1>1
  <2>2. /\ t \in [symbols : Seq(Texts), refs : Seq(Nat), packed : Seq(Nat)]
        /\ t.refs \in Seq(Nat) /\ \A i \in 1 .. Len(t.refs) : t.refs[i] < Len(t.symbols)
    BY DEF IsTable
  <2>3. u = [t EXCEPT !.refs = Append(@, r)]
    BY <1>1, <2>2 DEF Refer
  <2> HIDE DEF j, u
  <2>4. r \in Nat /\ r < Len(t.symbols) /\ t.symbols[r + 1] = text
    BY <2>1, <2>2 DEF Says
  <2> HIDE DEF r
  <2> QED
    BY <2>3, <2>4, RefAdded DEF u
<1>2. CASE ~same
  <2>1. u = Intern(t, text)
    BY <1>2 DEF Refer
  <2> QED
    BY <2>1, InternSays
<1> QED
  BY <1>1, <1>2

\* The references after the first s say the first k labels of a series.
Spells(t, s, series, k) ==
  \A j \in 1 .. k : /\ Says(t, s + 2 * j - 1) = series[j].name
                    /\ Says(t, s + 2 * j) = series[j].value

\* The last references, of as many as the series has, say the series before, if it is
\* laid out alike.
Laid(t, s, series, previous) ==
  previous # Empty /\ Len(previous) = Len(series) =>
    /\ s >= 2 * Len(series)
    /\ Spells(t, s - 2 * Len(series), previous, Len(series))

\* A label adds two references, which say its name and its value.
LEMMA LabelSays ==
  ASSUME NEW Texts, NEW t, IsTable(t, Texts), NEW series \in Seq(Pairs(Texts)),
         NEW s \in Nat, NEW k \in 1 .. Len(series), NEW previous,
         Len(t.refs) = s + 2 * (k - 1), Spells(t, s, series, k - 1),
         Laid(t, s, series, previous)
  PROVE  LET u == AddLabel(t, series, previous, k)
         IN /\ IsTable(u, Texts) /\ Grows(t, u) /\ u.packed = t.packed
            /\ Len(u.refs) = s + 2 * k /\ Spells(u, s, series, k)
            /\ Laid(u, s, series, previous)
<1> DEFINE alike == previous # Empty /\ Len(previous) = Len(series)
           n == Len(series)
           distance == 2 * n
           name == series[k].name
           value == series[k].value
           one == alike /\ previous[k].name = series[k].name
           two == alike /\ previous[k].value = series[k].value
           v == Refer(t, name, one, distance)
           u == Refer(v, value, two, distance)
           m == Len(t.refs)
<1>1. n \in Nat /\ distance \in Nat /\ name \in Texts /\ value \in Texts /\ k \in 1 .. n
  <2>1. series[k] \in Pairs(Texts)
    OBVIOUS
  <2>2. name \in Texts /\ value \in Texts
    BY <2>1 DEF Pairs
  <2>3. n \in Nat /\ k \in 1 .. n
    OBVIOUS
  <2> HIDE DEF n
  <2> QED
    BY <2>2, <2>3
<1>2. u = AddLabel(t, series, previous, k)
  BY DEF AddLabel
<1>3. m = s + 2 * (k - 1) /\ m \in Nat
  OBVIOUS
<1>4. alike => /\ s >= distance
               /\ \A j \in 1 .. n : /\ Says(t, (s - distance) + 2 * j - 1) = previous[j].name
                                    /\ Says(t, (s - distance) + 2 * j) = previous[j].value
  BY DEF Laid, Spells
<1>5. (one => alike /\ previous[k].name = name) /\ (two => alike /\ previous[k].value = value)
      /\ one \in BOOLEAN /\ two \in BOOLEAN
  OBVIOUS
<1> HIDE DEF name, value, alike, one, two
<1>6. one => LET j == m + 1 - distance IN j \in 1 .. m /\ Says(t, j) = name
  <2> SUFFICES ASSUME one PROVE m + 1 - distance \in 1 .. m /\ Says(t, m + 1 - distance) = name
    OBVIOUS
  <2>1. s >= distance /\ Says(t, (s - distance) + 2 * k - 1) = name
    BY <1>1, <1>4, <1>5
  <2>2. m + 1 - distance = (s - distance) + 2 * k - 1 /\ m + 1 - distance \in 1 .. m
    BY <1>1, <1>3, <2>1
  <2> QED
    BY <2>1, <2>2
<1> HIDE DEF n, distance
<1>7. /\ IsTable(v, Texts) /\ Grows(t, v) /\ v.packed = t.packed
      /\ Len(v.refs) = m + 1 /\ Says(v, m + 1) = name
  BY <1>1, <1>5, <1>6, ReferSays, SMTT(30)
<1> HIDE DEF v
<1>8. \A j \in 1 .. m : Says(v, j) = Says(t, j)
  BY <1>7, GrowsSays
<1>9. two => LET j == Len(v.refs) + 1 - distance IN j \in 1 .. Len(v.refs) /\ Says(v, j) = value
  <2> SUFFICES ASSUME two
               PROVE  m + 2 - distance \in 1 .. m + 1 /\ Says(v, m + 2 - distance) = value
    BY <1>1, <1>3, <1>7
  <2>1. s >= distance /\ Says(t, (s - distance) + 2 * k) = value
    BY <1>1, <1>4, <1>5
  <2>2. /\ m + 2 - distance = (s - distance) + 2 * k
        /\ m + 2 - distance \in 1 .. m
    BY <1>1, <1>3, <2>1 DEF distance
  <2> QED
    BY <1>3, <1>8, <2>1, <2>2
<1>10. /\ IsTable(u, Texts) /\ Grows(v, u) /\ u.packed = v.packed
       /\ Len(u.refs) = Len(v.refs) + 1 /\ Says(u, Len(v.refs) + 1) = value
  <2>1. IsTable(v, Texts) /\ value \in Texts /\ two \in BOOLEAN /\ distance \in Nat
    BY <1>1, <1>5, <1>7
  <2> QED
    BY <1>9, <2>1, ReferSays
<1> HIDE DEF u
<1>11. Grows(t, u)
  BY <1>7, <1>10, GrowsOn
<1>12. /\ Len(u.refs) = m + 2 /\ Says(u, m + 2) = value /\ Says(u, m + 1) = name
       /\ \A j \in 1 .. m : Says(u, j) = Says(t, j)
  <2>1. \A j \in 1 .. m + 1 : Says(u, j) = Says(v, j)
    BY <1>7, <1>10, GrowsSays
  <2>2. m + 1 \in 1 .. m + 1 /\ (m + 1) + 1 = m + 2 /\ \A j \in 1 .. m : j \in 1 .. m + 1
    BY <1>3
  <2> QED
    BY <1>7, <1>8, <1>10, <2>1, <2>2
<1>13. Spells(u, s, series, k)
  <2> SUFFICES ASSUME NEW j \in 1 .. k
               PROVE  /\ Says(u, s + 2 * j - 1) = series[j].name
                      /\ Says(u, s + 2 * j) = series[j].value
    BY DEF Spells
  <2>1. CASE j = k
    <3>1. s + 2 * j - 1 = m + 1 /\ s + 2 * j = m + 2
      BY <1>1, <1>3, <2>1
    <3> QED
      BY <1>12, <2>1, <3>1 DEF name, value
  <2>2. CASE j # k
    <3>1. j \in 1 .. k - 1 /\ s + 2 * j - 1 \in 1 .. m /\ s + 2 * j \in 1 .. m
      BY <1>1, <1>3, <2>2
    <3> QED
      BY <1>12, <3>1 DEF Spells
  <2> QED
    BY <2>1, <2>2
<1>14. Laid(u, s, series, previous)
  <2> SUFFICES ASSUME alike
               PROVE  /\ s >= distance
                      /\ \A j \in 1 .. n :
                           /\ Says(u, (s - distance) + 2 * j - 1) = previous[j].name
                           /\ Says(u, (s - distance) + 2 * j) = previous[j].value
    BY DEF Laid, Spells, alike, distance, n
  <2>1. ASSUME NEW j \in 1 .. n, s >= distance
        PROVE  /\ (s - distance) + 2 * j - 1 \in 1 .. m /\ (s - distance) + 2 * j \in 1 .. m
    BY <1>1, <1>3, <2>1 DEF distance
  <2> QED
    BY <1>4, <1>12, <2>1
<1>15. Len(u.refs) = s + 2 * k
  BY <1>1, <1>3, <1>12
<1> QED
  BY <1>2, <1>7, <1>10, <1>11, <1>13, <1>14, <1>15

-----------------------------------------------------------------------------
\* The size announced for a series' references is that of their varints.
PackedOf(refs, s, n) == SumOver(SubSeq(refs, s + 1, s + 2 * n), VarintLen)

\* It is a size.
LEMMA PackedIsSize ==
  ASSUME NEW refs \in Seq(Nat), NEW s \in Nat, NEW m \in Nat, s + m = Len(refs)
  PROVE  /\ SubSeq(refs, s + 1, s + m) \in Seq(Nat)
         /\ SumOver(SubSeq(refs, s + 1, s + m), VarintLen) \in Nat
<1> DEFINE own == SubSeq(refs, s + 1, s + m)
           sizes == [i \in DOMAIN own |-> VarintLen(own[i])]
           n == Len(own)
<1>1. own \in Seq(Nat)
  OBVIOUS
<1>2. SumOver(own, VarintLen) = Total(sizes)
  BY DEF SumOver
<1> HIDE DEF own
<1>3. n \in Nat /\ DOMAIN own = 1 .. n /\ \A i \in 1 .. n : own[i] \in Nat
  BY <1>1
<1>4. \A x \in Nat : VarintLen(x) \in Nat
  BY VarintIsSized
<1>5. sizes \in [1 .. n -> Nat]
  BY <1>3, <1>4
<1> HIDE DEF sizes, n
<1>6. Total(sizes) \in Nat
  BY <1>3, <1>5, TotalIsNat
<1> QED
  BY <1>1, <1>2, <1>6 DEF own

\* A series adds two references for each of its labels, which say its labels whatever
\* series is before it, and their size.
LEMMA AddedSays ==
  ASSUME NEW Texts, NEW t, IsTable(t, Texts), NEW series \in Seq(Pairs(Texts)),
         NEW previous, Laid(t, Len(t.refs), series, previous)
  PROVE  LET u == AddSeries(t, series, previous)
             s == Len(t.refs)
             n == Len(series)
         IN /\ IsTable(u, Texts) /\ Grows(t, u) /\ Len(u.refs) = s + 2 * n
            /\ Spells(u, s, series, n)
            /\ u.packed = Append(t.packed, PackedOf(u.refs, s, n))
<1> DEFINE n == Len(series)
           s == Len(t.refs)
           u == AddSeries(t, series, previous)
           added == AddLabels(series, previous, t)
           own == SubSeq(added.refs, Len(t.refs) + 1, Len(added.refs))
<1>1. n \in Nat /\ DOMAIN series = 1 .. n
  OBVIOUS
<1>2. s \in Nat
  BY DEF IsTable
<1>3. u = [added EXCEPT !.packed = Append(@, SumOver(own, VarintLen))]
  BY DEF AddSeries, AddLabels
<1>4. PICK h : Went(h, n, "label", series, previous, t) /\ h[n] = added
  <2> HIDE DEF n
  <2> QED
    BY <1>1, LabelSteps
<1> HIDE DEF added, u, n
<1> DEFINE Right(i) == /\ IsTable(h[i], Texts) /\ Grows(t, h[i]) /\ h[i].packed = t.packed
                       /\ Len(h[i].refs) = s + 2 * i /\ Spells(h[i], s, series, i)
                       /\ Laid(h[i], s, series, previous)
           Done == {i \in 0 .. n : Right(i)}
<1>5. 0 \in Done
  <2>1. h[0] = t
    BY <1>4 DEF Went
  <2>2. Grows(t, t)
    BY DEF Grows, IsTable
  <2>3. Spells(t, s, series, 0)
    BY DEF Spells
  <2>4. Len(t.refs) = s + 2 * 0 /\ 0 \in 0 .. n
    BY <1>1, <1>2
  <2> HIDE DEF s
  <2>5. Right(0)
    BY <2>1, <2>2, <2>3, <2>4 DEF s
  <2> QED
    BY <2>4, <2>5
<1>6. ASSUME NEW i \in 1 .. n, i - 1 \in Done
      PROVE  i \in Done
  <2> DEFINE a == h[i - 1]
  <2>1. h[i] = AddLabel(a, series, previous, i)
    BY <1>4 DEF Went, StepOf
  <2>2. /\ IsTable(a, Texts) /\ Grows(t, a) /\ a.packed = t.packed
        /\ Len(a.refs) = s + 2 * (i - 1) /\ Spells(a, s, series, i - 1)
        /\ Laid(a, s, series, previous)
    BY <1>6
  <2>3. i \in 1 .. Len(series) /\ i \in 0 .. n
    BY <1>1 DEF n
  <2> HIDE DEF a, s
  <2>4. /\ IsTable(h[i], Texts) /\ Grows(a, h[i]) /\ h[i].packed = a.packed
        /\ Len(h[i].refs) = s + 2 * i /\ Spells(h[i], s, series, i)
        /\ Laid(h[i], s, series, previous)
    BY <1>2, <2>1, <2>2, <2>3, LabelSays
  <2>5. Grows(t, h[i])
    BY <2>2, <2>4, GrowsOn
  <2> QED
    BY <2>2, <2>3, <2>4, <2>5
<1>7. Right(n)
  <2> HIDE DEF Right
  <2>1. 0 .. n \subseteq Done
    <3> HIDE DEF Done
    <3> QED
      BY <1>1, <1>5, <1>6, BoundedInduction
  <2>2. n \in 0 .. n
    BY <1>1
  <2> QED
    BY <2>1, <2>2
<1>8. /\ IsTable(added, Texts) /\ Grows(t, added) /\ added.packed = t.packed
      /\ Len(added.refs) = s + 2 * n /\ Spells(added, s, series, n)
  BY <1>4, <1>7
<1> DEFINE size == SumOver(own, VarintLen)
<1>9. size \in Nat /\ size = PackedOf(added.refs, s, n)
  <2>1. added.refs \in Seq(Nat) /\ 2 * n \in Nat
    BY <1>1, <1>8 DEF IsTable
  <2>2. own = SubSeq(added.refs, s + 1, s + 2 * n)
    BY <1>8
  <2> HIDE DEF s, own
  <2>3. SumOver(SubSeq(added.refs, s + 1, s + 2 * n), VarintLen) \in Nat
    BY <1>2, <1>8, <2>1, PackedIsSize
  <2> QED
    BY <2>2, <2>3 DEF PackedOf
<1> HIDE DEF s, own, size
<1>10. /\ u.symbols = added.symbols /\ u.refs = added.refs
       /\ u.packed = Append(t.packed, size)
       /\ u \in [symbols : Seq(Texts), refs : Seq(Nat), packed : Seq(Nat)]
  <2>1. added \in [symbols : Seq(Texts), refs : Seq(Nat), packed : Seq(Nat)]
    BY <1>8 DEF IsTable
  <2>2. u = [added EXCEPT !.packed = Append(@, size)]
    BY <1>3 DEF size
  <2>3. Append(t.packed, size) \in Seq(Nat)
    BY <1>9 DEF IsTable
  <2> QED
    BY <1>8, <2>1, <2>2, <2>3
<1>11. IsTable(u, Texts)
  BY <1>8, <1>10 DEF IsTable
<1>12. Grows(t, u) /\ Spells(u, s, series, n) /\ Len(u.refs) = s + 2 * n
  BY <1>8, <1>10 DEF Grows, Spells, Says
<1>13. u.packed = Append(t.packed, PackedOf(u.refs, s, n))
  BY <1>9, <1>10
<1> QED
  BY <1>11, <1>12, <1>13 DEF u, s, n

-----------------------------------------------------------------------------
\* SizesTo by number are a sequence.
LEMMA SizesAreSequence ==
  ASSUME NEW n \in Nat, NEW sizes \in [1 .. n -> Nat]
  PROVE  sizes \in Seq(Nat) /\ Len(sizes) = n
  OBVIOUS

\* Where the references of a series of a batch begin.
StartOf(batch, i) == SumOver(SubSeq(batch, 1, i - 1), LAMBDA series : 2 * Len(series))

\* They begin behind those of the series before it.
LEMMA StartsFollow ==
  ASSUME NEW Texts, NEW batch \in Seq(Seq(Pairs(Texts)))
  PROVE  /\ StartOf(batch, 1) = 0
         /\ \A i \in 1 .. Len(batch) :
              StartOf(batch, i) \in Nat
                /\ StartOf(batch, i + 1) = StartOf(batch, i) + 2 * Len(batch[i])
<1> DEFINE n == Len(batch)
           SizesTo(i) == [j \in 1 .. i |-> 2 * Len(batch[j])]
<1>1. n \in Nat /\ \A j \in 1 .. n : 2 * Len(batch[j]) \in Nat
  OBVIOUS
<1>2. ASSUME NEW i \in 0 .. n
      PROVE  StartOf(batch, i + 1) = Total(SizesTo(i)) /\ SizesTo(i) \in [1 .. i -> Nat]
  <2> DEFINE part == SubSeq(batch, 1, i)
  <2>1. DOMAIN part = 1 .. i /\ \A j \in 1 .. i : part[j] = batch[j]
    OBVIOUS
  <2>2. (i + 1) - 1 = i
    OBVIOUS
  <2>3. StartOf(batch, i + 1) = Total([j \in DOMAIN part |-> 2 * Len(part[j])])
    BY <2>2 DEF StartOf, SumOver
  <2> HIDE DEF part
  <2>4. [j \in DOMAIN part |-> 2 * Len(part[j])] = SizesTo(i)
    BY <2>1
  <2>5. SizesTo(i) \in [1 .. i -> Nat]
    BY <1>1
  <2> QED
    BY <2>3, <2>4, <2>5
<1>3. StartOf(batch, 1) = 0
  <2>1. 0 \in 0 .. n /\ 0 + 1 = 1 /\ SizesTo(0) = <<>>
    BY <1>1
  <2> HIDE DEF SizesTo
  <2> QED
    BY <1>2, <2>1, TotalOfNone
<1>4. ASSUME NEW i \in 1 .. n
      PROVE  StartOf(batch, i) \in Nat /\ StartOf(batch, i + 1) = StartOf(batch, i) + 2 * Len(batch[i])
  <2> DEFINE x == 2 * Len(batch[i])
             one == <<x>>
  <2>1. x \in Nat /\ i - 1 \in 0 .. n /\ i \in 0 .. n /\ (i - 1) + 1 = i
    BY <1>1
  <2>2. /\ StartOf(batch, i) = Total(SizesTo(i - 1)) /\ SizesTo(i - 1) \in [1 .. i - 1 -> Nat]
        /\ StartOf(batch, i + 1) = Total(SizesTo(i)) /\ SizesTo(i) \in [1 .. i -> Nat]
    <3> HIDE DEF SizesTo
    <3> QED
      BY <1>2, <2>1
  <2>3. \A j \in 1 .. i - 1 : SizesTo(i)[j] = SizesTo(i - 1)[j]
    OBVIOUS
  <2>4. SizesTo(i)[i] = x
    OBVIOUS
  <2> HIDE DEF SizesTo, x
  <2>5. one \in Seq(Nat) /\ Total(one) = x /\ Len(one) = 1 /\ one[1] = x
    BY <2>1, TotalOfOne
  <2>6. /\ SizesTo(i - 1) \in Seq(Nat) /\ Len(SizesTo(i - 1)) = i - 1
        /\ SizesTo(i) \in Seq(Nat) /\ Len(SizesTo(i)) = i
    <3>1. i - 1 \in Nat /\ i \in Nat
      BY <2>1
    <3> QED
      BY <2>2, <3>1, SizesAreSequence
  <2> HIDE DEF one
  <2>7. SizesTo(i) = SizesTo(i - 1) \o one
    <3>1. SizesTo(i) = Append(SizesTo(i - 1), x)
      <4> DEFINE more == Append(SizesTo(i - 1), x)
      <4>1. /\ more \in Seq(Nat) /\ Len(more) = (i - 1) + 1 /\ more[(i - 1) + 1] = x
            /\ \A j \in 1 .. i - 1 : more[j] = SizesTo(i - 1)[j]
        BY <2>1, <2>6, Appended
      <4> HIDE DEF more
      <4>2. \A j \in 1 .. i : more[j] = SizesTo(i)[j]
        <5> TAKE j \in 1 .. i
        <5>1. j = i \/ j \in 1 .. i - 1
          OBVIOUS
        <5> QED
          BY <2>1, <2>3, <2>4, <4>1, <5>1
      <4>3. Len(more) = i
        BY <2>1, <4>1
      <4>4. more = SizesTo(i)
        BY <2>6, <4>1, <4>2, <4>3, SameElements
      <4> QED
        BY <4>4 DEF more
    <3>2. Append(SizesTo(i - 1), x) = SizesTo(i - 1) \o one
      BY <2>6 DEF one
    <3> QED
      BY <3>1, <3>2
  <2>8. Total(SizesTo(i - 1)) \in Nat
    BY <2>6, TotalOfBytes
  <2> QED
    BY <2>2, <2>5, <2>6, <2>7, <2>8, TotalOfBoth DEF x
<1> QED
  BY <1>3, <1>4

-----------------------------------------------------------------------------
\* References take what their varints take.
LEMMA RefsTake ==
  ASSUME NEW own \in Seq(Nat), \A j \in 1 .. Len(own) : Word(own[j])
  PROVE  SumOver(own, VarintLen) = Total(PutEach(own, PutVarint))
<1> DEFINE n == Len(own)
           pieces == [i \in DOMAIN own |-> PutVarint(own[i])]
           sizes == [i \in DOMAIN own |-> VarintLen(own[i])]
<1>1. n \in Nat /\ DOMAIN own = 1 .. n /\ \A i \in 1 .. n : own[i] \in Nat /\ Word(own[i])
  OBVIOUS
<1>2. SumOver(own, VarintLen) = Total(sizes) /\ PutEach(own, PutVarint) = FlattenSeq(pieces)
  BY DEF SumOver, PutEach
<1>3. \A i \in 1 .. n : /\ PutVarint(own[i]) \in Seq(Nat)
                        /\ Total(PutVarint(own[i])) = VarintLen(own[i])
                        /\ VarintLen(own[i]) \in Nat
  BY <1>1, VarintTakes, VarintIsSized
<1> HIDE DEF n
<1>4. /\ \A i \in 1 .. n : pieces[i] = PutVarint(own[i]) /\ sizes[i] = VarintLen(own[i])
      /\ pieces = [i \in 1 .. n |-> pieces[i]] /\ sizes = [i \in 1 .. n |-> sizes[i]]
  BY <1>1
<1> HIDE DEF pieces, sizes
<1>5. /\ pieces \in [1 .. n -> Seq(Nat)] /\ sizes \in [1 .. n -> Nat]
      /\ \A i \in 1 .. n : Total(pieces[i]) = sizes[i]
  BY <1>3, <1>4
<1>6. Total(FlattenSeq(pieces)) = Total(sizes)
  BY <1>1, <1>5, EachTakes
<1> QED
  BY <1>2, <1>6

\* What two sequences have in common they have in common in part.
LEMMA SamePart ==
  ASSUME NEW S, NEW a \in Seq(S), NEW b \in Seq(S), NEW first \in 1 .. Len(a) + 1,
         NEW last \in 0 .. Len(a), Len(a) <= Len(b), \A j \in 1 .. Len(a) : b[j] = a[j]
  PROVE  SubSeq(b, first, last) = SubSeq(a, first, last)
  OBVIOUS

\* The series of a request are added one behind the other: each says its labels.
LEMMA BatchSays ==
  ASSUME NEW Texts, Empty \in Texts, NEW batch \in Seq(Seq(Pairs(Texts))), NEW scratch
  PROVE  LET u == EncodeV2(batch, scratch)
         IN /\ IsTable(u, Texts) /\ Len(u.refs) = StartOf(batch, Len(batch) + 1)
            /\ Len(u.packed) = Len(batch)
            /\ \A j \in 1 .. Len(batch) :
                 /\ StartOf(batch, j) + 2 * Len(batch[j]) <= Len(u.refs)
                 /\ Spells(u, StartOf(batch, j), batch[j], Len(batch[j]))
                 /\ u.packed[j] = PackedOf(u.refs, StartOf(batch, j), Len(batch[j]))
<1> DEFINE n == Len(batch)
           base == [symbols |-> <<Empty>>, refs |-> <<>>, packed |-> <<>>]
           Start(i) == StartOf(batch, i)
           before(i) == IF i = 1 THEN Empty ELSE batch[i - 1]
           Placed(u, j) == /\ Start(j) + 2 * Len(batch[j]) <= Len(u.refs)
                           /\ Spells(u, Start(j), batch[j], Len(batch[j]))
                           /\ u.packed[j] = PackedOf(u.refs, Start(j), Len(batch[j]))
           Right(u, i) == /\ IsTable(u, Texts) /\ Len(u.refs) = Start(i + 1)
                          /\ Len(u.packed) = i /\ \A j \in 1 .. i : Placed(u, j)
<1>1. /\ n \in Nat /\ DOMAIN batch = 1 .. n
      /\ \A i \in 1 .. n : batch[i] \in Seq(Pairs(Texts)) /\ Len(batch[i]) \in Nat
  OBVIOUS
<1>2. /\ Start(1) = 0
      /\ \A i \in 1 .. n : Start(i) \in Nat /\ Start(i + 1) = Start(i) + 2 * Len(batch[i])
  BY StartsFollow
<1> HIDE DEF n
<1>3. EncodeV2(batch, scratch) = AddAll(batch, base)
  BY DEF EncodeV2, ClearScratch, NewScratch, AddAll
<1>4. PICK h : Went(h, n, "series", batch, Empty, base) /\ h[n] = AddAll(batch, base)
  BY <1>1, SeriesSteps
<1> DEFINE Done == {i \in 0 .. n : Right(h[i], i)}
<1>5. 0 \in Done
  <2>1. h[0] = base
    BY <1>4 DEF Went
  <2>2. IsTable(base, Texts)
    <3>1. <<Empty>> \in Seq(Texts) /\ Len(<<Empty>>) = 1 /\ <<Empty>>[1] = Empty
      OBVIOUS
    <3>2. <<>> \in Seq(Nat) /\ Len(<<>>) = 0
      OBVIOUS
    <3> QED
      BY <3>1, <3>2 DEF IsTable
  <2>3. Len(base.refs) = 0 /\ Len(base.packed) = 0 /\ 0 + 1 = 1 /\ 0 \in 0 .. n /\ 1 .. 0 = {}
    BY <1>1
  <2> HIDE DEF base, Start, Placed
  <2> QED
    BY <1>2, <2>1, <2>2, <2>3
<1>6. ASSUME NEW i \in 1 .. n, i - 1 \in Done
      PROVE  i \in Done
  <2> DEFINE a == h[i - 1]
             u == h[i]
             series == batch[i]
             s == Start(i)
             m == Len(series)
             size == PackedOf(u.refs, s, m)
  <2>1. u = AddSeries(a, series, before(i))
    BY <1>4 DEF Went, StepOf
  <2>2. /\ IsTable(a, Texts) /\ Len(a.refs) = s /\ Len(a.packed) = i - 1
        /\ \A j \in 1 .. i - 1 : Placed(a, j)
    <3>1. (i - 1) + 1 = i
      BY <1>1
    <3> QED
      BY <1>6, <3>1
  <2>3. /\ series \in Seq(Pairs(Texts)) /\ m \in Nat /\ s \in Nat
        /\ Start(i + 1) = s + 2 * m
    BY <1>1, <1>2
  <2> HIDE DEF a, u, Start
  <2>4. Laid(a, s, series, before(i))
    <3>1. CASE i = 1
      BY <3>1 DEF Laid
    <3>2. CASE i # 1
      <4> DEFINE previous == batch[i - 1]
      <4>1. i - 1 \in 1 .. n /\ i - 1 \in 1 .. i - 1 /\ (i - 1) + 1 = i
        BY <1>1, <3>2
      <4>2. /\ Start(i - 1) \in Nat /\ s = Start(i - 1) + 2 * Len(previous)
            /\ Len(previous) \in Nat /\ Spells(a, Start(i - 1), previous, Len(previous))
        BY <1>1, <1>2, <2>2, <4>1
      <4>3. before(i) = previous
        BY <3>2
      <4> HIDE DEF previous, before, m, series, s
      <4>4. ASSUME Len(previous) = Len(series)
            PROVE  s >= 2 * Len(series) /\ s - 2 * Len(series) = Start(i - 1)
        BY <2>3, <4>2, <4>4
      <4> QED
        BY <4>2, <4>3, <4>4 DEF Laid
    <3> QED
      BY <3>1, <3>2
  <2> HIDE DEF before, series, s, size
  <2>5. /\ IsTable(u, Texts) /\ Grows(a, u) /\ Len(u.refs) = s + 2 * m
        /\ Spells(u, s, series, m) /\ u.packed = Append(a.packed, size)
    <3> DEFINE b == before(i)
    <3>1. Laid(a, Len(a.refs), series, b) /\ u = AddSeries(a, series, b)
      BY <2>1, <2>2, <2>4
    <3> HIDE DEF b
    <3>2. LET v == AddSeries(a, series, b)
          IN /\ IsTable(v, Texts) /\ Grows(a, v) /\ Len(v.refs) = Len(a.refs) + 2 * Len(series)
             /\ Spells(v, Len(a.refs), series, Len(series))
             /\ v.packed = Append(a.packed, PackedOf(v.refs, Len(a.refs), Len(series)))
      <4>1. IsTable(a, Texts) /\ series \in Seq(Pairs(Texts))
        BY <2>2, <2>3
      <4> QED
        BY <3>1, <4>1, AddedSays, ZenonT(40)
    <3> QED
      BY <2>2, <3>1, <3>2 DEF size
  <2>6. /\ a.packed \in Seq(Nat) /\ a.refs \in Seq(Nat) /\ u.refs \in Seq(Nat) /\ size \in Nat
    <3>1. a.packed \in Seq(Nat) /\ a.refs \in Seq(Nat) /\ u.refs \in Seq(Nat)
      BY <2>2, <2>5 DEF IsTable
    <3>2. 2 * m \in Nat
      BY <2>3
    <3>3. size \in Nat
      BY <2>3, <2>5, <3>1, <3>2, PackedIsSize DEF size, PackedOf
    <3> QED
      BY <3>1, <3>3
  <2>7. /\ Len(u.packed) = i /\ u.packed[i] = size
        /\ \A j \in 1 .. i - 1 : u.packed[j] = a.packed[j]
    <3>1. /\ Len(u.packed) = (i - 1) + 1 /\ u.packed[(i - 1) + 1] = size
          /\ \A j \in 1 .. i - 1 : u.packed[j] = a.packed[j]
      BY <2>2, <2>5, <2>6, Appended
    <3>2. (i - 1) + 1 = i
      BY <1>1
    <3> QED
      BY <3>1, <3>2
  <2>8. ASSUME NEW j \in 1 .. i - 1
        PROVE  Placed(u, j)
    <3> DEFINE r == Start(j)
               k == Len(batch[j])
    <3>1. j \in 1 .. n /\ r \in Nat /\ k \in Nat
      <4>1. j \in 1 .. n
        BY <1>1
      <4> QED
        BY <1>1, <1>2, <4>1
    <3>2. r + 2 * k <= Len(a.refs) /\ Spells(a, r, batch[j], k) /\ a.packed[j] = PackedOf(a.refs, r, k)
      BY <2>2
    <3> HIDE DEF r, k
    <3>3. r + 2 * k <= Len(u.refs)
      BY <2>2, <2>3, <2>5, <3>1, <3>2
    <3>4. Spells(u, r, batch[j], k)
      <4> SUFFICES ASSUME NEW l \in 1 .. k
                   PROVE  /\ Says(u, r + 2 * l - 1) = batch[j][l].name
                          /\ Says(u, r + 2 * l) = batch[j][l].value
        BY DEF Spells
      <4>1. r + 2 * l - 1 \in 1 .. Len(a.refs) /\ r + 2 * l \in 1 .. Len(a.refs)
        BY <2>2, <2>3, <3>1, <3>2
      <4>2. \A p \in 1 .. Len(a.refs) : Says(u, p) = Says(a, p)
        BY <2>2, <2>5, GrowsSays
      <4> QED
        BY <3>2, <4>1, <4>2 DEF Spells
    <3>5. PackedOf(u.refs, r, k) = PackedOf(a.refs, r, k)
      <4> DEFINE first == r + 1
                 last == r + 2 * k
      <4>1. first \in 1 .. Len(a.refs) + 1 /\ last \in 0 .. Len(a.refs)
        BY <2>2, <2>3, <3>1, <3>2
      <4>2. Len(a.refs) <= Len(u.refs) /\ \A p \in 1 .. Len(a.refs) : u.refs[p] = a.refs[p]
        BY <2>5 DEF Grows
      <4> HIDE DEF first, last
      <4>3. SubSeq(u.refs, first, last) = SubSeq(a.refs, first, last)
        BY <2>6, <4>1, <4>2, SamePart
      <4> QED
        BY <4>3 DEF PackedOf, first, last
    <3> QED
      BY <2>7, <3>2, <3>3, <3>4, <3>5 DEF r, k
  <2>9. Placed(u, i)
    <3>1. s + 2 * m <= Len(u.refs)
      BY <2>3, <2>5
    <3> QED
      BY <2>5, <2>7, <3>1 DEF s, series, size
  <2>10. \A j \in 1 .. i : Placed(u, j)
    <3> TAKE j \in 1 .. i
    <3>1. j = i \/ j \in 1 .. i - 1
      BY <1>1
    <3> HIDE DEF Placed
    <3> QED
      BY <2>8, <2>9, <3>1
  <2>11. Right(u, i) /\ i \in 0 .. n
    <3> HIDE DEF Placed
    <3>1. i \in 0 .. n
      BY <1>1
    <3> QED
      BY <2>3, <2>5, <2>7, <2>10, <3>1
  <2> HIDE DEF Right
  <2> QED
    BY <2>11 DEF u
<1>7. Right(h[n], n)
  <2> HIDE DEF Right
  <2>1. 0 .. n \subseteq Done
    <3> HIDE DEF Done
    <3> QED
      BY <1>1, <1>5, <1>6, BoundedInduction
  <2>2. n \in 0 .. n
    BY <1>1
  <2> QED
    BY <2>1, <2>2
<1> DEFINE u == EncodeV2(batch, scratch)
<1>8. u = h[n]
  BY <1>3, <1>4
<1> HIDE DEF u
<1> QED
  BY <1>7, <1>8 DEF n, u

-----------------------------------------------------------------------------
\* What a stretch of a sequence holds.
LEMMA StretchHolds ==
  ASSUME NEW S, NEW refs \in Seq(S), NEW s \in Nat, NEW k \in Nat, s + k <= Len(refs)
  PROVE  LET own == SubSeq(refs, s + 1, s + k)
         IN own \in Seq(S) /\ Len(own) = k /\ \A j \in 1 .. k : own[j] = refs[s + j]
<1> DEFINE own == SubSeq(refs, s + 1, s + k)
<1>1. own = [j \in 1 .. k |-> refs[s + j]]
  <2>1. (s + k) - (s + 1) + 1 = k
    OBVIOUS
  <2>2. own = [j \in 1 .. k |-> refs[(s + 1) + j - 1]]
    BY <2>1
  <2>3. \A j \in 1 .. k : (s + 1) + j - 1 = s + j
    OBVIOUS
  <2> QED
    BY <2>2, <2>3
<1>2. \A j \in 1 .. k : refs[s + j] \in S
  OBVIOUS
<1> QED
  BY <1>1, <1>2

\* A request decodes to its batch, for every batch of any number of series with any
\* number of labels over any strings, whatever the request before left in the buffers:
\* taking references over from the series before never changes what they say, the
\* symbols are distinct, and the size announced for the references of a series is
\* theirs (encode_v2_into, intern).
THEOREM RequestsDecode ==
  ASSUME NEW Texts, Empty \in Texts, NEW batch \in Seq(Seq(Pairs(Texts))), NEW scratch,
         Word(StartOf(batch, Len(batch) + 1))
  PROVE  DecodesToBatch(EncodeV2(batch, scratch), batch)
<1> DEFINE n == Len(batch)
           u == EncodeV2(batch, scratch)
<1>1. /\ IsTable(u, Texts) /\ Len(u.refs) = StartOf(batch, n + 1) /\ Len(u.packed) = n
      /\ \A j \in 1 .. n :
           /\ StartOf(batch, j) + 2 * Len(batch[j]) <= Len(u.refs)
           /\ Spells(u, StartOf(batch, j), batch[j], Len(batch[j]))
           /\ u.packed[j] = PackedOf(u.refs, StartOf(batch, j), Len(batch[j]))
  BY BatchSays
<1>2. /\ n \in Nat /\ DOMAIN batch = 1 .. n
      /\ \A i \in 1 .. n : batch[i] \in Seq(Pairs(Texts))
  OBVIOUS
<1> HIDE DEF u
<1>3. u.symbols[1] = Empty /\ IsInjective(u.symbols)
  <2>1. u.symbols \in Seq(Texts)
    BY <1>1 DEF IsTable
  <2>2. DOMAIN u.symbols = 1 .. Len(u.symbols)
    BY <2>1
  <2>3. /\ u.symbols[1] = Empty
        /\ \A i, j \in 1 .. Len(u.symbols) : u.symbols[i] = u.symbols[j] => i = j
    BY <1>1 DEF IsTable
  <2> QED
    BY <2>2, <2>3, Zenon DEF IsInjective
<1>4. ASSUME NEW i \in 1 .. n
      PROVE  /\ ReadSeries(u, batch, i) = batch[i]
             /\ u.packed[i] = Total(PutEach(OwnRefs(u, batch, i), PutVarint))
  <2> DEFINE series == batch[i]
             m == Len(series)
             s == StartOf(batch, i)
             own == SubSeq(u.refs, s + 1, s + 2 * m)
  <2>1. OwnRefs(u, batch, i) = own
    BY DEF OwnRefs, StartOf
  <2>2. /\ series \in Seq(Pairs(Texts)) /\ m \in Nat /\ s \in Nat /\ DOMAIN series = 1 .. m
        /\ s + 2 * m <= Len(u.refs) /\ u.refs \in Seq(Nat) /\ Spells(u, s, series, m)
        /\ u.packed[i] = SumOver(own, VarintLen)
    <3>1. series \in Seq(Pairs(Texts)) /\ m \in Nat /\ DOMAIN series = 1 .. m
      BY <1>2
    <3>2. s \in Nat
      BY StartsFollow
    <3>3. u.refs \in Seq(Nat)
      BY <1>1 DEF IsTable
    <3> QED
      BY <1>1, <3>1, <3>2, <3>3 DEF PackedOf
  <2> HIDE DEF series, m, s
  <2>3. /\ own \in Seq(Nat) /\ Len(own) = 2 * m
        /\ \A j \in 1 .. 2 * m : own[j] = u.refs[s + j]
    <3>1. u.refs \in Seq(Nat) /\ s \in Nat /\ 2 * m \in Nat /\ s + 2 * m <= Len(u.refs)
      BY <2>2
    <3> HIDE DEF u
    <3> QED
      BY ONLY <3>1, StretchHolds
  <2> HIDE DEF own
  <2>4. ASSUME NEW k \in 1 .. m
        PROVE  /\ u.symbols[own[2 * k - 1] + 1] = series[k].name
               /\ u.symbols[own[2 * k] + 1] = series[k].value
    <3>1. 2 * k - 1 \in 1 .. 2 * m /\ 2 * k \in 1 .. 2 * m
      BY <2>2
    <3>2. own[2 * k - 1] = u.refs[s + 2 * k - 1] /\ own[2 * k] = u.refs[s + 2 * k]
      <4>1. s + (2 * k - 1) = s + 2 * k - 1
        BY <2>2
      <4> QED
        BY <2>3, <3>1, <4>1
    <3> QED
      BY <2>2, <3>2 DEF Spells, Says
  <2>5. ReadSeries(u, batch, i)
          = [k \in 1 .. m |-> [name |-> u.symbols[own[2 * k - 1] + 1],
                               value |-> u.symbols[own[2 * k] + 1]]]
    <3>1. DOMAIN batch[i] = 1 .. m
      BY <2>2 DEF series
    <3> QED
      BY <2>1, <3>1 DEF ReadSeries
  <2>6. \A k \in 1 .. m : series[k] = [name |-> series[k].name, value |-> series[k].value]
    <3> TAKE k \in 1 .. m
    <3>1. series[k] \in Pairs(Texts)
      BY <2>2
    <3> QED
      BY <3>1 DEF Pairs
  <2>7. series = [k \in 1 .. m |-> series[k]]
    BY <2>2
  <2>8. ReadSeries(u, batch, i) = series
    BY <2>4, <2>5, <2>6, <2>7
  <2>9. \A j \in 1 .. Len(own) : Word(own[j])
    <3> TAKE j \in 1 .. Len(own)
    <3> DEFINE l == s + j
    <3>1. j \in 1 .. 2 * m /\ j \in Nat /\ 2 * m \in Nat
      BY <2>2, <2>3
    <3>2. own[j] = u.refs[l]
      BY <2>3, <3>1
    <3>3. l \in 1 .. Len(u.refs)
      <4>1. Len(u.refs) \in Nat
        BY <2>2
      <4> QED
        BY <2>2, <3>1, <4>1, SMTT(30)
    <3> HIDE DEF l
    <3>4. u.refs[l] \in Nat /\ u.refs[l] < Len(u.symbols)
      <4>1. \A r \in 1 .. Len(u.refs) : u.refs[r] < Len(u.symbols)
        BY <1>1 DEF IsTable
      <4>2. u.refs \in Seq(Nat)
        BY <2>2
      <4> QED
        BY ONLY <3>3, <4>1, <4>2, SMTT(30)
    <3>5. Len(u.symbols) <= Len(u.refs) + 1 /\ Len(u.symbols) \in Nat /\ Len(u.refs) \in Nat
      BY <1>1, <2>2 DEF IsTable
    <3>6. own[j] \in Nat /\ own[j] <= Len(u.refs)
      BY <3>2, <3>4, <3>5
    <3> QED
      BY <1>1, <3>6, WordBelow
  <2>10. u.packed[i] = Total(PutEach(own, PutVarint))
    BY <2>2, <2>3, <2>9, RefsTake
  <2> QED
    BY <2>1, <2>8, <2>10 DEF series
<1> QED
  BY <1>1, <1>2, <1>3, <1>4 DEF DecodesToBatch, u

-----------------------------------------------------------------------------
\* A part goes on with its own steps: what the work is of does not change once it
\* is of something.
LEMMA StepsOfParts ==
  ASSUME "of" \in DOMAIN work, [Next]_work
  PROVE  /\ "of" \in DOMAIN work'
         /\ work'.of = "relabel" => RelabelStart \/ RelabelStep \/ UNCHANGED work
         /\ work'.of = "cluster" => ClusterStart \/ ClusterStep \/ UNCHANGED work
         /\ work'.of = "config" => ConfigStart \/ ConfigChange \/ UNCHANGED work
         /\ work'.of = "targets" => ScrapeTargetsStart \/ ScrapeTargetsStep \/ UNCHANGED work
         /\ work'.of = "batch" => ScrapeBatchStart \/ ScrapeBatchStep \/ UNCHANGED work
         /\ work'.of = "body" => ScrapeBodyStart \/ ScrapeBodyStep \/ UNCHANGED work
         /\ work'.of = "message" => LengthStart \/ UNCHANGED work
         /\ work'.of = "symbols" => EncodeStart \/ EncodeStep \/ UNCHANGED work
<1>1. RelabelStart => "of" \in DOMAIN work' /\ work'.of = "relabel"
  BY DEF RelabelStart
<1>2. RelabelStep => "of" \in DOMAIN work' /\ work'.of = "relabel"
  BY DEF RelabelStep
<1>3. HistogramStart => "of" \in DOMAIN work' /\ work'.of = "histogram"
  BY DEF HistogramStart
<1>4. HistogramStep => "of" \in DOMAIN work' /\ work'.of = "histogram"
  BY DEF HistogramStep
<1>5. ClusterStart => "of" \in DOMAIN work' /\ work'.of = "cluster"
  BY DEF ClusterStart
<1>6. ClusterStep => "of" \in DOMAIN work' /\ work'.of = "cluster"
  BY DEF ClusterStep
<1>7. LengthStart => "of" \in DOMAIN work' /\ work'.of = "message"
  BY DEF LengthStart
<1>8. EncodeStart => "of" \in DOMAIN work' /\ work'.of = "symbols"
  BY DEF EncodeStart
<1>9. EncodeStep => "of" \in DOMAIN work' /\ work'.of = "symbols"
  BY DEF EncodeStep
<1>10. TextStart => "of" \in DOMAIN work' /\ work'.of = "text"
  BY DEF TextStart
<1>11. TextStep => "of" \in DOMAIN work' /\ work'.of = "text"
  BY DEF TextStep
<1>12. TextEdit => "of" \in DOMAIN work' /\ work'.of = "text"
  BY DEF TextEdit
<1>13. FamilyStart => "of" \in DOMAIN work' /\ work'.of = "family"
  BY DEF FamilyStart
<1>14. FamilyStep => "of" \in DOMAIN work' /\ work'.of = "family"
  BY DEF FamilyStep
<1>15. QuantityStart => "of" \in DOMAIN work' /\ work'.of \in {"duration", "size"}
  BY DEF QuantityStart
<1>16. QuantityGrow => "of" \in DOMAIN work' /\ work'.of \in {"duration", "size"}
  BY DEF QuantityGrow
<1>17. ConfigStart => "of" \in DOMAIN work' /\ work'.of = "config"
  BY DEF ConfigStart
<1>18. ConfigChange => "of" \in DOMAIN work' /\ work'.of = "config"
  <2> SUFFICES ASSUME ConfigChange PROVE "of" \in DOMAIN work' /\ work'.of = "config"
    OBVIOUS
  <2>1. work.of = "config"
    BY DEF ConfigChange
  <2>2. CASE \E job \in JobChanges(work.config.jobs[1]) :
               work' = [work EXCEPT !.left = @ - 1, !.config.jobs[1] = job]
    BY <2>1, <2>2
  <2>3. CASE \E remote \in RemoteChanges(work.config.remotes[1]) :
               work' = [work EXCEPT !.left = @ - 1, !.config.remotes[1] = remote]
    BY <2>1, <2>3
  <2>4. CASE \E global \in GlobalChanges(work.config.global) :
               work' = [work EXCEPT !.left = @ - 1, !.config.global = global]
    BY <2>1, <2>4
  <2>5. CASE work' = [work EXCEPT !.left = @ - 1, !.config.server = {"alerting"}]
    BY <2>1, <2>5
  <2> QED
    BY <2>2, <2>3, <2>4, <2>5 DEF ConfigChange
<1>19. ScrapeTargetsStart => "of" \in DOMAIN work' /\ work'.of = "targets"
  BY DEF ScrapeTargetsStart
<1>20. ScrapeTargetsStep => "of" \in DOMAIN work' /\ work'.of = "targets"
  BY DEF ScrapeTargetsStep
<1>21. ScrapeBodyStart => "of" \in DOMAIN work' /\ work'.of = "body"
  BY DEF ScrapeBodyStart
<1>22. ScrapeBodyStep => "of" \in DOMAIN work' /\ work'.of = "body"
  BY DEF ScrapeBodyStep
<1>23. ScrapeBatchStart => "of" \in DOMAIN work' /\ work'.of = "batch"
  BY DEF ScrapeBatchStart
<1>24. ScrapeBatchStep => "of" \in DOMAIN work' /\ work'.of = "batch"
  BY DEF ScrapeBatchStep
<1> QED
  BY <1>1, <1>2, <1>3, <1>4, <1>5, <1>6, <1>7, <1>8, <1>9, <1>10, <1>11, <1>12,
     <1>13, <1>14, <1>15, <1>16, <1>17, <1>18, <1>19, <1>20, <1>21, <1>22, <1>23,
     <1>24 DEF Next

-----------------------------------------------------------------------------
\* Label sets: what is relabelled is a set of labels of different names, or dropped.
LabelsTyped(Tokens) ==
  /\ "of" \in DOMAIN work
  /\ work.of = "relabel" => "labels" \in DOMAIN work /\ work.labels \in Left(Tokens)

\* The tokens the runs of the module write their labels and rules with.
MCTokens == {"a", "b", "t", "x", "X", "0", "nl", ";"}

\* Up to two elements of a set are a sequence over it.
LEMMA SequencesOf ==
  ASSUME NEW S, NEW x \in S, NEW y \in S
  PROVE  {<<>>, <<x>>, <<x, y>>} \subseteq Seq(S)
  OBVIOUS

\* Up to two tokens are a text, and with references a template.
LEMMA TextsOfTokens ==
  ASSUME NEW Tokens, MCTokens \subseteq Tokens
  PROVE  /\ \A x, y \in MCTokens : {<<>>, <<x>>, <<x, y>>} \subseteq Seq(Tokens)
         /\ \A x, y \in MCTokens \cup {Capture, NoCapture} :
              {<<>>, <<x>>, <<x, y>>} \subseteq Templates(Tokens)
<1>1. \A x, y \in MCTokens : x \in Tokens /\ y \in Tokens
  OBVIOUS
<1>2. \A x, y \in MCTokens \cup {Capture, NoCapture} :
        x \in Tokens \cup {Capture, NoCapture} /\ y \in Tokens \cup {Capture, NoCapture}
  OBVIOUS
<1> QED
  BY <1>1, <1>2, SequencesOf DEF Templates

\* The rules the module tries are rules that pass validation.
LEMMA RulesTyped ==
  ASSUME NEW Tokens, MCTokens \subseteq Tokens
  PROVE  MCRules \subseteq ValidRules(Tokens)
<1>1. /\ {<<>>, <<"x">>, <<"a">>, <<";">>, A, B, Scratch} \subseteq Seq(Tokens)
      /\ {<<>>, <<"x">>, <<Capture>>, <<"b", Capture>>, <<NoCapture>>, <<"0">>, B, Scratch}
           \subseteq Templates(Tokens)
  BY TextsOfTokens DEF MCTokens, A, B, Scratch
<1>2. MCPatterns \subseteq Patterns(Tokens)
  <2>1. ASSUME NEW prefix \in {<<>>, <<"x">>, <<"a">>}, NEW suffix \in {<<>>, <<"a">>},
               NEW star \in {"none", "plain", "group"}
        PROVE  Pattern(prefix, star, suffix) \in Patterns(Tokens)
    <3>1. prefix \in Seq(Tokens) /\ suffix \in Seq(Tokens)
      BY <1>1
    <3> QED
      BY <3>1 DEF Pattern, Patterns
  <2> QED
    BY <2>1, Zenon DEF MCPatterns, DefaultPattern
<1>3. /\ MCTemplates \subseteq Templates(Tokens) /\ MCTargetLabels \subseteq Templates(Tokens)
      /\ {<<A>>, <<A, B>>} \subseteq Seq(Seq(Tokens)) /\ 2 \in Nat
  <2>1. {<<A>>, <<A, B>>} \subseteq Seq(Seq(Tokens))
    BY <1>1, SequencesOf
  <2>2. MCTemplates \subseteq Templates(Tokens) /\ MCTargetLabels \subseteq Templates(Tokens)
    BY <1>1, Zenon DEF MCTemplates, MCTargetLabels
  <2> QED
    BY <2>1, <2>2
<1>4. ASSUME NEW actions \in SUBSET Actions, NEW targets \in SUBSET Templates(Tokens),
             NEW patterns \in SUBSET Patterns(Tokens), NEW templates \in SUBSET Templates(Tokens)
      PROVE  Rules(actions, targets, patterns, templates) \subseteq RelabelRules(Tokens)
  BY <1>1, <1>3 DEF Rules, RelabelRules
<1>5. DefaultPattern \in MCPatterns
  BY DEF MCPatterns
<1> DEFINE S1 == Rules({"replace"}, MCTargetLabels, MCPatterns, MCTemplates)
           S2 == Rules({"keep", "drop", "labeldrop", "labelkeep"}, {<<>>}, MCPatterns, {<<>>})
           S3 == Rules({"keepequal", "dropequal", "hashmod", "lowercase", "uppercase"},
                       {B, Scratch}, {DefaultPattern}, {<<>>})
           S4 == Rules({"labelmap"}, {<<>>}, MCPatterns, MCTemplates \ {<<>>})
<1>6. S1 \subseteq RelabelRules(Tokens)
  BY <1>2, <1>3, <1>4 DEF Actions
<1>7. S2 \subseteq RelabelRules(Tokens)
  BY <1>1, <1>2, <1>4 DEF Actions
<1>8. S3 \subseteq RelabelRules(Tokens)
  BY <1>1, <1>2, <1>4, <1>5 DEF Actions
<1>9. S4 \subseteq RelabelRules(Tokens)
  BY <1>1, <1>2, <1>3, <1>4 DEF Actions
<1>10. \A rule \in S1 : rule.action = "replace"
  BY DEF Rules
<1>11. \A rule \in S2 \cup S3 \cup S4 : rule.target_label \in {<<>>, B, Scratch}
  BY DEF Rules
<1>12. MCRules = {rule \in S1 \cup S2 \cup S3 \cup S4 : Valid(rule)}
  BY DEF MCRules
<1> HIDE DEF S1, S2, S3, S4
<1> QED
  BY <1>1, <1>6, <1>7, <1>8, <1>9, <1>10, <1>11, <1>12 DEF ValidRules

\* A rule after the other leaves a set of labels of different names, or drops it.
LEMMA LabelsInvariant ==
  ASSUME NEW Tokens, MCTokens \subseteq Tokens, TextsAreClosed(Tokens)
  PROVE  Spec => []LabelsTyped(Tokens)
<1>1. Init => LabelsTyped(Tokens)
  BY DEF Init, LabelsTyped
<1>2. LabelsTyped(Tokens) /\ [Next]_work => LabelsTyped(Tokens)'
  <2> SUFFICES ASSUME LabelsTyped(Tokens), [Next]_work PROVE LabelsTyped(Tokens)'
    OBVIOUS
  <2>1. /\ "of" \in DOMAIN work'
        /\ work'.of = "relabel" => RelabelStart \/ RelabelStep \/ UNCHANGED work
    BY StepsOfParts DEF LabelsTyped
  <2>2. CASE RelabelStart
    <3>1. PICK a \in MCValues, b \in MCValues :
            work' = [of |-> "relabel", left |-> MaxRules, labels |-> <<Label(A, a), Label(B, b)>>]
      BY <2>2 DEF RelabelStart
    <3>2. a \in Seq(Tokens) /\ b \in Seq(Tokens) /\ A \in Seq(Tokens) /\ B \in Seq(Tokens)
      BY TextsOfTokens DEF MCValues, MCTokens, A, B
    <3>3. Label(A, a) \in Labels(Tokens) /\ Label(B, b) \in Labels(Tokens)
      BY <3>2 DEF Label, Labels
    <3>4. <<Label(A, a), Label(B, b)>> \in Seq(Labels(Tokens))
      BY <3>3
    <3>5. A # B
      BY DEF A, B
    <3>6. NamesUnique(<<Label(A, a), Label(B, b)>>)
      BY <3>5 DEF NamesUnique, Label
    <3> QED
      BY <2>1, <3>1, <3>4, <3>6 DEF LabelsTyped, Left, LabelSets
  <2>3. CASE RelabelStep
    <3>1. PICK rule \in MCSteps :
            work' = [work EXCEPT !.left = @ - 1, !.labels = Apply(@, rule)]
      BY <2>3 DEF RelabelStep
    <3>2. rule \in ValidRules(Tokens)
      BY <3>1, RulesTyped DEF MCSteps
    <3>3. /\ "labels" \in DOMAIN work /\ work.labels \in LabelSets(Tokens)
      BY <2>3 DEF RelabelStep, LabelsTyped, Left
    <3>4. DOMAIN work' = DOMAIN work /\ work'.labels = Apply(work.labels, rule)
      BY <3>1, <3>3
    <3>5. Apply(work.labels, rule) \in Left(Tokens)
      BY <3>2, <3>3, RewriteIsLabelSet DEF Apply, Left
    <3> QED
      BY <2>1, <3>3, <3>4, <3>5 DEF LabelsTyped
  <2>4. CASE UNCHANGED work
    BY <2>4 DEF LabelsTyped
  <2> QED
    BY <2>1, <2>2, <2>3, <2>4 DEF LabelsTyped
<1> QED
  BY <1>1, <1>2, PTL DEF Spec

\* The fast paths decide as the regex engine, no sequence of rules makes a name
\* twice, and agents that shard by hashmod share all targets, over any tokens that
\* numerals, digests and cases do not leave.
THEOREM RelabellingHolds ==
  ASSUME NEW Tokens, MCTokens \subseteq Tokens, TextsAreClosed(Tokens),
         Dropped \notin LabelSets(Tokens), \A m, n \in Nat : Numeral(m) = Numeral(n) => m = n
  PROVE  Spec => []Relabelled
<1>1. LabelsTyped(Tokens) => Relabelled
  <2> SUFFICES ASSUME LabelsTyped(Tokens), Labelled
               PROVE  /\ \A rule \in MCRules : FastPathsAgree(work.labels, rule)
                      /\ NamesUnique(work.labels)
                      /\ \A modulus \in 1 .. 3 :
                           OneShardKeeps(work.labels, <<A, B>>, <<";">>, Scratch, modulus)
    BY DEF Relabelled, FastPaths, UniqueNames, Sharding
  <2>1. work.labels \in LabelSets(Tokens)
    BY DEF LabelsTyped, Labelled, Left
  <2>2. work.labels \in Seq(Labels(Tokens)) /\ NamesUnique(work.labels)
    BY <2>1 DEF LabelSets
  <2>3. MCRules \subseteq RelabelRules(Tokens)
    BY RulesTyped DEF ValidRules
  <2>4. \A rule \in MCRules : FastPathsAgree(work.labels, rule)
    BY <2>2, <2>3, FastPathsAreExact
  <2>5. /\ <<A, B>> \in Seq(Seq(Tokens)) /\ <<";">> \in Seq(Tokens)
        /\ Scratch \in Seq(Tokens) /\ Scratch # <<>>
    <3>1. A \in Seq(Tokens) /\ B \in Seq(Tokens)
      BY TextsOfTokens DEF MCTokens, A, B
    <3>2. <<";">> \in Seq(Tokens) /\ Scratch \in Seq(Tokens) /\ Scratch # <<>>
      BY TextsOfTokens DEF MCTokens, Scratch
    <3> QED
      BY <3>1, <3>2, SequencesOf
  <2>6. ASSUME NEW modulus \in 1 .. 3
        PROVE  OneShardKeeps(work.labels, <<A, B>>, <<";">>, Scratch, modulus)
    <3>1. modulus \in Nat \ {0}
      OBVIOUS
    <3> QED
      BY <2>1, <2>5, <3>1, SharedOnce, Zenon
  <2> QED
    BY <2>2, <2>4, <2>6
<1> QED
  BY <1>1, LabelsInvariant, PTL

-----------------------------------------------------------------------------
\* Clusters: a slice of sequences over finitely many pods of sequences.
ClusterTyped ==
  /\ "of" \in DOMAIN work
  /\ work.of = "cluster" =>
       /\ {"slice", "pods"} \subseteq DOMAIN work
       /\ IsASlice(work.slice) /\ IsFiniteSet(DOMAIN work.pods)
       /\ \A name \in DOMAIN work.pods : IsAPod(work.pods[name])

\* Up to two elements listed are a sequence of them.
LEMMA Listed ==
  /\ IsASequence(<<>>) /\ ToSet(<<>>) = {}
  /\ \A x : IsASequence(<<x>>) /\ ToSet(<<x>>) = {x}
  /\ \A x, y : IsASequence(<<x, y>>) /\ ToSet(<<x, y>>) = {x, y}
<1>1. ToSet(<<>>) = {} /\ IsASequence(<<>>)
  BY DEF ToSet, IsASequence
<1>2. ASSUME NEW x PROVE IsASequence(<<x>>) /\ ToSet(<<x>>) = {x}
  <2>1. ToSet(<<x>>) = {x}
    BY DEF ToSet
  <2>2. <<x>> \in Seq({x})
    OBVIOUS
  <2> QED
    BY <2>1, <2>2 DEF IsASequence
<1>3. ASSUME NEW x, NEW y PROVE IsASequence(<<x, y>>) /\ ToSet(<<x, y>>) = {x, y}
  <2>1. ToSet(<<x, y>>) = {x, y}
    <3>1. DOMAIN <<x, y>> = {1, 2}
      OBVIOUS
    <3> QED
      BY <3>1 DEF ToSet
  <2>2. <<x, y>> \in Seq({x, y})
    OBVIOUS
  <2> QED
    BY <2>1, <2>2 DEF IsASequence
<1> QED
  BY <1>1, <1>2, <1>3

\* A sequence of up to two elements.
OfUpToTwo(s) == s = <<>> \/ (\E x : s = <<x>>) \/ (\E x, y : s = <<x, y>>)

\* A sequence that is short is one over its own elements.
LEMMA Short ==
  ASSUME NEW s, OfUpToTwo(s)
  PROVE  IsASequence(s)
<1>1. CASE s = <<>>
  BY <1>1, Listed
<1>2. CASE \E x : s = <<x>>
  BY <1>2, Listed
<1>3. CASE \E x, y : s = <<x, y>>
  <2>1. PICK x, y : s = <<x, y>>
    BY <1>3
  <2>2. IsASequence(<<x, y>>)
    BY Listed
  <2> QED
    BY <2>1, <2>2
<1> QED
  BY <1>1, <1>2, <1>3 DEF OfUpToTwo

\* The slices and the pods the runs of the module start from are of those types.
LEMMA ClustersTyped ==
  ASSUME Absent \notin {1, 2, 3}, \A kind, name, addresses : Absent # MCEndpoint(kind, name, addresses)
  PROVE  /\ \A slice \in MCSlices : IsASlice(slice)
         /\ \A name, nodes : \A pod \in MCPods(name, nodes) : IsAPod(pod)
<1>1. ASSUME NEW slice \in MCSlices PROVE IsASlice(slice)
  <2>1. /\ slice.ports \in {<<>>, <<1>>, <<1, 2>>, <<2, 1>>, <<Absent>>, <<Absent, 3>>}
        /\ slice.endpoints \in
             { <<MCEndpoint("Pod", "p", <<"p">>)>>,
               <<MCEndpoint("Pod", "p", <<"p", "h">>), MCEndpoint("Pod", "q", <<"q">>)>>,
               <<MCEndpoint("Node", "n1", <<"h">>), MCEndpoint("Pod", "q", <<>>)>> }
    BY DEF MCSlices
  <2>2. IsASequence(slice.ports)
    BY <2>1, Short DEF OfUpToTwo
  <2>3. IsASequence(slice.endpoints)
    BY <2>1, Short DEF OfUpToTwo
  <2>4. \A i \in DOMAIN slice.endpoints : slice.endpoints[i] # Absent
    BY <2>1
  <2>5. \A i \in DOMAIN slice.endpoints :
          slice.endpoints[i].addresses \in {<<>>, <<"p">>, <<"p", "h">>, <<"q">>, <<"h">>}
    BY <2>1 DEF MCEndpoint
  <2>6. \A addresses \in {<<>>, <<"p">>, <<"p", "h">>, <<"q">>, <<"h">>} : IsASequence(addresses)
    BY Short DEF OfUpToTwo
  <2> QED
    BY <2>2, <2>3, <2>4, <2>5, <2>6 DEF IsASlice, ToSet
<1>2. ASSUME NEW name, NEW nodes, NEW pod \in MCPods(name, nodes) PROVE IsAPod(pod)
  <2>1. pod.containers \in MCContainers
    BY DEF MCPods
  <2>2. IsASequence(pod.containers)
    BY <2>1, Short DEF MCContainers, OfUpToTwo
  <2>3. \A i \in DOMAIN pod.containers :
          pod.containers[i].ports \in {<<>>, <<1>>, <<1, 2>>, <<3>>, <<2, 3>>}
    BY <2>1 DEF MCContainers
  <2>4. \A ports \in {<<>>, <<1>>, <<1, 2>>, <<3>>, <<2, 3>>} :
          IsASequence(ports) /\ Absent \notin ToSet(ports)
    BY Listed
  <2> QED
    BY <2>2, <2>3, <2>4 DEF IsAPod, ToSet
<1> QED
  BY <1>1, <1>2

\* Deleting a pod keeps the types.
LEMMA ClusterInvariant ==
  ASSUME Absent \notin {1, 2, 3}, \A kind, name, addresses : Absent # MCEndpoint(kind, name, addresses)
  PROVE  Spec => []ClusterTyped
<1>1. Init => ClusterTyped
  BY DEF Init, ClusterTyped
<1>2. ClusterTyped /\ [Next]_work => ClusterTyped'
  <2> SUFFICES ASSUME ClusterTyped, [Next]_work PROVE ClusterTyped'
    OBVIOUS
  <2>1. /\ "of" \in DOMAIN work'
        /\ work'.of = "cluster" => ClusterStart \/ ClusterStep \/ UNCHANGED work
    BY StepsOfParts DEF ClusterTyped
  <2>2. CASE ClusterStart
    <3>1. PICK slice \in MCSlices, nodes \in MCNodes,
               p \in MCPods("p", {"n1", "n2"}), q \in MCPods("q", {"n1"}) :
            work' = [of |-> "cluster", slice |-> slice, nodes |-> nodes,
                     pods |-> [name \in {"p", "q"} |-> IF name = "p" THEN p ELSE q]]
      BY <2>2 DEF ClusterStart
    <3>2. /\ {"slice", "pods"} \subseteq DOMAIN work' /\ work'.slice = slice
          /\ work'.pods = [name \in {"p", "q"} |-> IF name = "p" THEN p ELSE q]
      BY <3>1
    <3>3. IsASlice(slice) /\ IsAPod(p) /\ IsAPod(q)
      BY ClustersTyped
    <3>4. IsFiniteSet({"p", "q"})
      <4>1. {"p", "q"} = {"p"} \cup {"q"}
        OBVIOUS
      <4>2. IsFiniteSet({"p"})
        BY FS_Singleton
      <4>3. IsFiniteSet({"p"} \cup {"q"})
        BY <4>2, FS_AddElement
      <4> QED
        BY <4>1, <4>3
    <3>5. /\ DOMAIN work'.pods = {"p", "q"}
          /\ \A name \in DOMAIN work'.pods : IsAPod(work'.pods[name])
      BY <3>2, <3>3
    <3> QED
      BY <2>1, <3>2, <3>3, <3>4, <3>5 DEF ClusterTyped
  <2>3. CASE ClusterStep
    <3>1. PICK name \in DOMAIN work.pods :
            work' = [work EXCEPT !.pods = [n \in DOMAIN @ \ {name} |-> @[n]]]
      BY <2>3 DEF ClusterStep
    <3>2. /\ {"slice", "pods"} \subseteq DOMAIN work /\ IsASlice(work.slice)
          /\ IsFiniteSet(DOMAIN work.pods) /\ \A n \in DOMAIN work.pods : IsAPod(work.pods[n])
      BY <2>3 DEF ClusterStep, ClusterTyped
    <3>3. /\ DOMAIN work' = DOMAIN work /\ work'.slice = work.slice
          /\ work'.pods = [n \in DOMAIN work.pods \ {name} |-> work.pods[n]]
      BY <3>1, <3>2
    <3>4. IsFiniteSet(DOMAIN work.pods \ {name})
      BY <3>2, FS_RemoveElement
    <3> QED
      BY <2>1, <3>2, <3>3, <3>4 DEF ClusterTyped
  <2>4. CASE UNCHANGED work
    BY <2>4 DEF ClusterTyped
  <2> QED
    BY <2>1, <2>2, <2>3, <2>4 DEF ClusterTyped
<1> QED
  BY <1>1, <1>2, PTL DEF Spec

\* Every port of the pods behind a slice is reached, and a port the slice lists is
\* not added a second time, whichever pods are deleted.
THEOREM PortsAreCovered ==
  ASSUME Absent \notin {1, 2, 3}, \A kind, name, addresses : Absent # MCEndpoint(kind, name, addresses)
  PROVE  Spec => []PortsCovered
<1>1. ClusterTyped => PortsCovered
  <2> SUFFICES ASSUME ClusterTyped, work.of = "cluster"
               PROVE  /\ ReachesDeclaredPorts(work.slice, {"s"}, work.pods, work.nodes)
                      /\ NoPortTwice(work.slice, {"s"}, work.pods, work.nodes)
    BY DEF PortsCovered, PortsReached, PortsOnce
  <2>1. /\ IsASlice(work.slice) /\ IsFiniteSet(DOMAIN work.pods)
        /\ \A name \in DOMAIN work.pods : IsAPod(work.pods[name])
    BY DEF ClusterTyped
  <2>2. ReachesDeclaredPorts(work.slice, {"s"}, work.pods, work.nodes)
    BY <2>1, DeclaredPortsReached
  <2>3. NoPortTwice(work.slice, {"s"}, work.pods, work.nodes)
    BY <2>1, PortsListedOnce
  <2> QED
    BY <2>2, <2>3
<1> QED
  BY <1>1, ClusterInvariant, PTL

-----------------------------------------------------------------------------
\* Bodies: what a body is read from is within the types of read_body.
BodyTyped ==
  /\ "of" \in DOMAIN work
  /\ work.of = "body" =>
       /\ {"announced", "limit", "chunks"} \subseteq DOMAIN work
       /\ work.announced \in Nat \cup {Unset} /\ work.limit \in Nat /\ work.chunks \in Seq(Nat)

\* The types of a body are kept.
LEMMA BodyInvariant == Spec => []BodyTyped
<1>1. Init => BodyTyped
  BY DEF Init, BodyTyped
<1>2. BodyTyped /\ [Next]_work => BodyTyped'
  <2> SUFFICES ASSUME BodyTyped, [Next]_work PROVE BodyTyped'
    OBVIOUS
  <2>1. /\ "of" \in DOMAIN work'
        /\ work'.of = "body" => ScrapeBodyStart \/ ScrapeBodyStep \/ UNCHANGED work
    BY StepsOfParts DEF BodyTyped
  <2>2. CASE ScrapeBodyStart
    BY <2>2 DEF ScrapeBodyStart, BodyTyped
  <2>3. CASE ScrapeBodyStep
    <3>1. PICK chunk \in 1 .. 3 : work' = [work EXCEPT !.chunks = Append(@, chunk)]
      BY <2>3 DEF ScrapeBodyStep
    <3>2. /\ {"announced", "limit", "chunks"} \subseteq DOMAIN work
          /\ work.announced \in Nat \cup {Unset} /\ work.limit \in Nat /\ work.chunks \in Seq(Nat)
      BY <2>3 DEF ScrapeBodyStep, BodyTyped
    <3>3. Append(work.chunks, chunk) \in Seq(Nat)
      BY <3>2
    <3>4. /\ work'.announced = work.announced /\ work'.limit = work.limit
          /\ work'.chunks = Append(work.chunks, chunk) /\ DOMAIN work' = DOMAIN work
      BY <3>1, <3>2
    <3> QED
      BY <2>1, <3>2, <3>3, <3>4 DEF BodyTyped
  <2>4. CASE UNCHANGED work
    BY <2>4 DEF BodyTyped
  <2> QED
    BY <2>1, <2>2, <2>3, <2>4 DEF BodyTyped
<1> QED
  BY <1>1, <1>2, PTL DEF Spec

-----------------------------------------------------------------------------
\* Configurations: the settings of the first job are of the types its parts read.
JobTyped(job, Texts) ==
  /\ {"auth", "protocols"} \subseteq DOMAIN job
  /\ job.auth \in Auths(Texts) /\ job.protocols \in {Unset} \cup Seq(ProtocolNames)
FileTyped(config, Texts) ==
  /\ {"jobs", "remotes", "global"} \subseteq DOMAIN config
  /\ DOMAIN config.jobs = {1, 2} /\ \A i \in {1, 2} : JobTyped(config.jobs[i], Texts)
  /\ DOMAIN config.remotes = {1} /\ "auth" \in DOMAIN config.remotes[1]
  /\ config.remotes[1].auth \in Auths(Texts)
  /\ "protocols" \in DOMAIN config.global
  /\ config.global.protocols \in {Unset} \cup Seq(ProtocolNames)
ConfigTyped(Texts) ==
  /\ "of" \in DOMAIN work
  /\ work.of = "config" => "config" \in DOMAIN work /\ FileTyped(work.config, Texts)

\* The settings the changes choose from.
LEMMA SettingsTyped ==
  ASSUME NEW Texts, TextsAssumption(Texts), {"t", "f"} \subseteq Texts
  PROVE  /\ MCAuth \subseteq Auths(Texts) /\ MCNoAuth \in Auths(Texts)
         /\ MCProtocolLists \subseteq {Unset} \cup Seq(ProtocolNames)
<1>1. MCSecrets \subseteq Secrets(Texts) \cup {Unset}
  BY DEF MCSecrets, MCSecret, Secrets
<1>2. MCAuth \subseteq Auths(Texts) /\ MCNoAuth \in Auths(Texts)
  BY <1>1 DEF MCAuth, MCNoAuth, Auths
<1>3. MCProtocolLists \subseteq {Unset} \cup Seq(ProtocolNames)
  <2>1. ASSUME NEW n \in 0 .. 2,
               NEW s \in [1 .. n -> {"PrometheusProto", "PrometheusText0.0.4",
                                    "OpenMetricsText1.0.0"}]
        PROVE  s \in Seq(ProtocolNames)
    BY <2>1 DEF ProtocolNames
  <2>2. SeqOf({"PrometheusProto", "PrometheusText0.0.4", "OpenMetricsText1.0.0"}, 2)
          \subseteq Seq(ProtocolNames)
    BY <2>1, Zenon DEF SeqOf
  <2> QED
    BY <2>2 DEF MCProtocolLists
<1> QED
  BY <1>2, <1>3

\* A change of a job leaves it a job.
LEMMA JobChangesTyped ==
  ASSUME NEW Texts, TextsAssumption(Texts), {"t", "f"} \subseteq Texts,
         NEW job, JobTyped(job, Texts), NEW changed \in JobChanges(job)
  PROVE  JobTyped(changed, Texts)
<1>1. /\ MCAuth \subseteq Auths(Texts)
      /\ MCProtocolLists \subseteq {Unset} \cup Seq(ProtocolNames)
  BY SettingsTyped
<1>2. CASE \E p \in MCProtocolLists : changed = [job EXCEPT !.protocols = p]
  BY <1>1, <1>2 DEF JobTyped
<1>3. CASE \E a \in MCAuth : changed = [job EXCEPT !.auth = a]
  BY <1>1, <1>3 DEF JobTyped
<1>4. CASE /\ changed.protocols = job.protocols /\ changed.auth = job.auth
           /\ DOMAIN changed = DOMAIN job
  BY <1>4 DEF JobTyped
<1> QED
  BY <1>2, <1>3, <1>4 DEF JobChanges, JobTyped

\* A change of an endpoint leaves it credentials.
LEMMA RemoteChangesTyped ==
  ASSUME NEW Texts, TextsAssumption(Texts), {"t", "f"} \subseteq Texts,
         NEW remote, "auth" \in DOMAIN remote, remote.auth \in Auths(Texts),
         NEW changed \in RemoteChanges(remote)
  PROVE  "auth" \in DOMAIN changed /\ changed.auth \in Auths(Texts)
<1>1. MCAuth \subseteq Auths(Texts)
  BY SettingsTyped
<1>2. CASE \E a \in MCAuth : changed = [remote EXCEPT !.auth = a]
  BY <1>1, <1>2
<1>3. CASE changed.auth = remote.auth /\ DOMAIN changed = DOMAIN remote
  BY <1>3
<1> QED
  BY <1>2, <1>3 DEF RemoteChanges

\* The settings of a configuration keep their types, however many are changed.
LEMMA ConfigInvariant ==
  ASSUME NEW Texts, TextsAssumption(Texts), {"t", "f"} \subseteq Texts
  PROVE  Spec => []ConfigTyped(Texts)
<1>1. Init => ConfigTyped(Texts)
  BY DEF Init, ConfigTyped
<1>2. ConfigTyped(Texts) /\ [Next]_work => ConfigTyped(Texts)'
  <2> SUFFICES ASSUME ConfigTyped(Texts), [Next]_work PROVE ConfigTyped(Texts)'
    OBVIOUS
  <2>1. /\ "of" \in DOMAIN work'
        /\ work'.of = "config" => ConfigStart \/ ConfigChange \/ UNCHANGED work
    BY StepsOfParts DEF ConfigTyped
  <2>2. CASE ConfigStart
    <3>1. work'.config = MCConfig /\ DOMAIN work' = {"of", "config", "readable", "left"}
      BY <2>2 DEF ConfigStart
    <3>2. JobTyped(MCJob("j"), Texts) /\ JobTyped(MCJob("k"), Texts)
      BY SettingsTyped DEF MCJob, JobTyped
    <3>3. MCRemote.auth \in Auths(Texts) /\ "auth" \in DOMAIN MCRemote
      BY SettingsTyped DEF MCRemote
    <3>4. FileTyped(MCConfig, Texts)
      <4>1. /\ MCConfig.jobs = <<MCJob("j"), MCJob("k")>> /\ MCConfig.remotes = <<MCRemote>>
            /\ {"jobs", "remotes", "global"} \subseteq DOMAIN MCConfig
            /\ MCConfig.global.protocols = Unset /\ "protocols" \in DOMAIN MCConfig.global
        BY DEF MCConfig
      <4> QED
        BY <3>2, <3>3, <4>1 DEF FileTyped
    <3> QED
      BY <2>1, <3>1, <3>4 DEF ConfigTyped
  <2>3. CASE ConfigChange
    <3> DEFINE config == work.config
    <3>1. "config" \in DOMAIN work /\ FileTyped(config, Texts)
      BY <2>3 DEF ConfigChange, ConfigTyped
    <3>2. CASE \E job \in JobChanges(config.jobs[1]) :
                 work' = [work EXCEPT !.left = @ - 1, !.config.jobs[1] = job]
      <4>1. PICK job \in JobChanges(config.jobs[1]) :
              work' = [work EXCEPT !.left = @ - 1, !.config.jobs[1] = job]
        BY <3>2
      <4>2. JobTyped(job, Texts)
        BY <3>1, JobChangesTyped DEF FileTyped
      <4>3. /\ DOMAIN work' = DOMAIN work
            /\ work'.config = [config EXCEPT !.jobs[1] = job]
        BY <3>1, <4>1
      <4>4. FileTyped([config EXCEPT !.jobs[1] = job], Texts)
        <5> HIDE DEF config
        <5> QED
          BY <3>1, <4>2 DEF FileTyped
      <4> QED
        BY <2>1, <3>1, <4>3, <4>4 DEF ConfigTyped
    <3>3. CASE \E remote \in RemoteChanges(config.remotes[1]) :
                 work' = [work EXCEPT !.left = @ - 1, !.config.remotes[1] = remote]
      <4>1. PICK remote \in RemoteChanges(config.remotes[1]) :
              work' = [work EXCEPT !.left = @ - 1, !.config.remotes[1] = remote]
        BY <3>3
      <4>2. "auth" \in DOMAIN remote /\ remote.auth \in Auths(Texts)
        BY <3>1, RemoteChangesTyped DEF FileTyped
      <4>3. /\ DOMAIN work' = DOMAIN work
            /\ work'.config = [config EXCEPT !.remotes[1] = remote]
        BY <3>1, <4>1
      <4>4. FileTyped([config EXCEPT !.remotes[1] = remote], Texts)
        <5> HIDE DEF config
        <5> QED
          BY <3>1, <4>2 DEF FileTyped
      <4> QED
        BY <2>1, <3>1, <4>3, <4>4 DEF ConfigTyped
    <3>4. CASE \E global \in GlobalChanges(config.global) :
                 work' = [work EXCEPT !.left = @ - 1, !.config.global = global]
      <4>1. PICK global \in GlobalChanges(config.global) :
              work' = [work EXCEPT !.left = @ - 1, !.config.global = global]
        BY <3>4
      <4>2. /\ "protocols" \in DOMAIN global
            /\ global.protocols \in {Unset} \cup Seq(ProtocolNames)
        BY <3>1, SettingsTyped DEF FileTyped, GlobalChanges
      <4>3. /\ DOMAIN work' = DOMAIN work
            /\ work'.config = [config EXCEPT !.global = global]
        BY <3>1, <4>1
      <4>4. FileTyped([config EXCEPT !.global = global], Texts)
        <5> HIDE DEF config
        <5> QED
          BY <3>1, <4>2 DEF FileTyped
      <4> QED
        BY <2>1, <3>1, <4>3, <4>4 DEF ConfigTyped
    <3>5. CASE work' = [work EXCEPT !.left = @ - 1, !.config.server = {"alerting"}]
      <4>1. /\ DOMAIN work' = DOMAIN work
            /\ work'.config = [config EXCEPT !.server = {"alerting"}]
        BY <3>1, <3>5
      <4>2. FileTyped([config EXCEPT !.server = {"alerting"}], Texts)
        <5> HIDE DEF config
        <5> QED
          BY <3>1 DEF FileTyped
      <4> QED
        BY <2>1, <3>1, <4>1, <4>2 DEF ConfigTyped
    <3> QED
      BY <2>3, <3>2, <3>3, <3>4, <3>5 DEF ConfigChange
  <2>4. CASE UNCHANGED work
    BY <2>4 DEF ConfigTyped
  <2> QED
    BY <2>1, <2>2, <2>3, <2>4 DEF ConfigTyped
<1> QED
  BY <1>1, <1>2, PTL DEF Spec

-----------------------------------------------------------------------------
\* At most a bound, and few sizes that each are.
Within(x, bound) == x \in Nat /\ x <= bound
FewSizes(sizes, n) == n \in 0 .. 3 /\ sizes \in [1 .. n -> Nat] /\ \A i \in 1 .. n : sizes[i] <= 1000

\* Few small sizes are together small.
LEMMA FewAreSmall ==
  ASSUME NEW n, NEW sizes, FewSizes(sizes, n)
  PROVE  Within(Total(sizes), 3000)
<1> SUFFICES Total(sizes) \in Nat /\ Total(sizes) <= 3000
  BY DEF Within
<1>0. /\ n \in Nat /\ sizes \in [1 .. n -> Nat] /\ \A i \in 1 .. n : sizes[i] <= 1000
      /\ n \in 0 .. 3
  BY DEF FewSizes
<1>1. n \in Nat /\ (n = 0 \/ n = 1 \/ n = 2 \/ n = 3)
  BY <1>0
<1>2. PICK h \in [0 .. n -> Nat] : Adds(h, n, sizes)
  BY <1>0, TotalSteps
<1>3. h[0] = 0 /\ Total(sizes) = h[n] /\ \A i \in 1 .. n : h[i] = h[i - 1] + sizes[i]
  BY <1>2 DEF Adds
<1>4. CASE n = 0
  BY <1>3, <1>4
<1>5. CASE n = 1
  BY <1>0, <1>3, <1>5
<1>6. CASE n = 2
  <2>1. h[1] = h[0] + sizes[1] /\ h[2] = h[1] + sizes[2]
    BY <1>3, <1>6
  <2>2. sizes[1] \in Nat /\ sizes[1] <= 1000 /\ sizes[2] \in Nat /\ sizes[2] <= 1000
    BY <1>0, <1>6
  <2> QED
    BY <1>3, <1>6, <2>1, <2>2
<1>7. CASE n = 3
  <2>1. h[1] = h[0] + sizes[1] /\ h[2] = h[1] + sizes[2] /\ h[3] = h[2] + sizes[3]
    BY <1>3, <1>7
  <2>2. /\ sizes[1] \in Nat /\ sizes[1] <= 1000 /\ sizes[2] \in Nat /\ sizes[2] <= 1000
        /\ sizes[3] \in Nat /\ sizes[3] <= 1000
    BY <1>0, <1>7
  <2> QED
    BY <1>3, <1>7, <2>1, <2>2
<1> QED
  BY <1>1, <1>4, <1>5, <1>6, <1>7

\* What small numbers take.
LEMMA SmallLengths ==
  ASSUME NEW x, Within(x, 100000)
  PROVE  /\ x \in Nat /\ Word(x)
         /\ Within(VarintLen(x), 10) /\ Within(DelimitedLen(x), x + 11)
         /\ Within(StringLen(x), x + 11) /\ Within(PackedLen(x), x + 11)
<1>1. x \in Nat /\ Word(x)
  BY DEF Within, Word
<1>2. VarintLen(x) \in Nat /\ VarintLen(x) <= 10
  <2>1. VarintLen(x) \in 1 .. 10
    BY ONLY <1>1, VarintTakes
  <2> QED
    BY <2>1
<1> QED
  BY <1>1, <1>2 DEF Within, DelimitedLen, StringLen, PackedLen

\* A small number of either sign can be sent.
LEMMA SmallIntegers ==
  ASSUME NEW x \in Int, -100 <= x, x <= 200
  PROVE  WireInt(x) /\ Within(Zigzag(x), 1000) /\ Within(VarintLen(Zigzag(x)), 10)
<1>1. Zigzag(x) \in Nat /\ Zigzag(x) <= 1000
  BY DEF Zigzag
<1> DEFINE z == Zigzag(x)
<1>2. z \in Nat /\ z <= 1000
  BY <1>1
<1> HIDE DEF z
<1>3. Within(z, 100000) /\ Within(z, 1000)
  BY <1>2 DEF Within
<1>4. Word(z) /\ Within(VarintLen(z), 10)
  BY <1>3, SmallLengths
<1> QED
  BY <1>2, <1>3, <1>4 DEF z, WireInt

\* Few spans, few deltas and a count of small numbers.
FewSpans(spans, n) ==
  /\ DOMAIN spans = 1 .. n
  /\ \A i \in 1 .. n : /\ spans[i].offset \in Int /\ -100 <= spans[i].offset /\ spans[i].offset <= 200
                       /\ Within(spans[i].length, 200)
FewDeltas(deltas, n) ==
  deltas \in [1 .. n -> Int] /\ \A i \in 1 .. n : -100 <= deltas[i] /\ deltas[i] <= 200

\* Few spans are short.
LEMMA SpansAreShort ==
  ASSUME NEW n \in 0 .. 3, NEW spans, FewSpans(spans, n)
  PROVE  (\A i \in 1 .. n : WireSpan(spans[i])) /\ Within(SpansLen(spans), 3000)
<1>1. ASSUME NEW i \in 1 .. n
      PROVE  WireSpan(spans[i]) /\ DelimitedLen(SpanLen(spans[i])) \in Nat
             /\ DelimitedLen(SpanLen(spans[i])) <= 1000
  <2> DEFINE span == spans[i]
             length == SpanLen(span)
  <2>1. /\ span.offset \in Int /\ -100 <= span.offset /\ span.offset <= 200
        /\ span.length \in Nat /\ span.length <= 200
    BY DEF FewSpans, Within
  <2> HIDE DEF span
  <2>2. WireInt(span.offset)
    BY <2>1, SmallIntegers
  <2>3. Within(span.length, 100000)
    BY <2>1 DEF Within
  <2>4. WireSpan(span)
    BY <2>2, <2>3, SmallLengths DEF WireSpan
  <2>5. length \in Nat /\ length <= 22
    <3>1. SpanLen(span) \in 0 .. 22
      BY <2>4, SpanTakes
    <3> QED
      BY <3>1
  <2> HIDE DEF length
  <2>6. Within(length, 100000)
    BY <2>5 DEF Within
  <2>7. Within(DelimitedLen(length), length + 11)
    BY <2>6, SmallLengths
  <2>8. DelimitedLen(length) \in Nat /\ DelimitedLen(length) <= 1000
    BY <2>5, <2>7 DEF Within
  <2> QED
    BY <2>4, <2>8 DEF span, length
<1> DEFINE sizes == [i \in 1 .. n |-> DelimitedLen(SpanLen(spans[i]))]
<1>2. SpansLen(spans) = Total(sizes)
  BY DEF SpansLen, SumOver, FewSpans
<1>3. FewSizes(sizes, n)
  BY <1>1 DEF FewSizes
<1> HIDE DEF sizes
<1>4. Within(Total(sizes), 3000)
  BY <1>3, FewAreSmall
<1> QED
  BY <1>1, <1>2, <1>4

\* Few deltas are short.
LEMMA DeltasAreShort ==
  ASSUME NEW n \in 0 .. 3, NEW deltas, FewDeltas(deltas, n)
  PROVE  /\ deltas \in Seq(Int) /\ \A i \in DOMAIN deltas : WireInt(deltas[i])
         /\ Within(DeltasLen(deltas), 3000)
<1>1. ASSUME NEW i \in 1 .. n
      PROVE  WireInt(deltas[i]) /\ Within(VarintLen(Zigzag(deltas[i])), 10)
  BY SmallIntegers DEF FewDeltas
<1>2. DOMAIN deltas = 1 .. n /\ n \in Nat /\ deltas \in [1 .. n -> Int]
  BY DEF FewDeltas
<1>3. deltas \in Seq(Int)
  BY <1>2
<1> DEFINE sizes == [i \in 1 .. n |-> VarintLen(Zigzag(deltas[i]))]
<1>4. DeltasLen(deltas) = Total(sizes)
  BY <1>2 DEF DeltasLen, SumOver
<1>5. FewSizes(sizes, n)
  <2>1. \A i \in 1 .. n : VarintLen(Zigzag(deltas[i])) \in Nat /\ VarintLen(Zigzag(deltas[i])) <= 1000
    BY <1>1 DEF Within
  <2> QED
    BY <2>1 DEF FewSizes
<1> HIDE DEF sizes
<1>6. Within(Total(sizes), 3000)
  BY <1>5, FewAreSmall
<1> QED
  BY <1>1, <1>2, <1>3, <1>4, <1>6

\* A side of few spans and deltas of small numbers can be sent.
LEMMA SidesAreSmall ==
  ASSUME NEW side, NEW n \in 0 .. 3, NEW m \in 0 .. 3, FewSpans(side.spans, n),
         FewDeltas(side.deltas, m), Within(side.counts, 16)
  PROVE  WireSide(side) /\ Within(SideLen(side), 7000)
<1> DEFINE a == SpansLen(side.spans)
           d == DeltasLen(side.deltas)
           c == side.counts * Double
<1>1. (\A i \in 1 .. n : WireSpan(side.spans[i])) /\ Within(a, 3000)
  BY SpansAreShort
<1>2. /\ side.deltas \in Seq(Int) /\ \A i \in DOMAIN side.deltas : WireInt(side.deltas[i])
      /\ Within(d, 3000)
  BY DeltasAreShort
<1>3. side.counts \in Nat /\ c \in Nat /\ c <= 128
  BY DEF Within, Double
<1>4. DOMAIN side.spans = 1 .. n /\ n \in Nat
  BY DEF FewSpans
<1>5. WireSide(side)
  BY <1>1, <1>2, <1>3, <1>4, SMTT(30) DEF WireSide
<1>6. SideLen(side) = a + PackedLen(d) + PackedLen(c)
  BY DEF SideLen
<1> HIDE DEF a, d, c
<1>7. Within(d, 100000) /\ Within(c, 100000) /\ d \in Nat /\ d <= 3000 /\ a \in Nat /\ a <= 3000
  BY <1>1, <1>2, <1>3 DEF Within
<1>8. Within(PackedLen(d), d + 11) /\ Within(PackedLen(c), c + 11)
  BY <1>7, SmallLengths
<1>9. SideLen(side) \in Nat /\ SideLen(side) <= 7000
  BY <1>3, <1>6, <1>7, <1>8 DEF Within
<1> QED
  BY <1>5, <1>9 DEF Within

\* One side of the histograms of the runs can be sent.
LEMMA SidesAreSent ==
  ASSUME NEW side, side.spans \in MCSpanSets, side.deltas \in {<<>>, <<1, -70, 70>>},
         side.counts \in {0, 16}
  PROVE  WireSide(side) /\ Within(SideLen(side), 7000)
<1> DEFINE spans == side.spans
           deltas == side.deltas
<1>1. spans \in MCSpanSets /\ deltas \in {<<>>, <<1, -70, 70>>} /\ Within(side.counts, 16)
  BY DEF Within
<1> HIDE DEF spans, deltas
<1>2. \E n \in 0 .. 3 : FewSpans(spans, n)
  <2>1. CASE spans = <<>>
    <3>1. DOMAIN spans = 1 .. 0
      BY <2>1
    <3>2. FewSpans(spans, 0)
      BY <3>1 DEF FewSpans
    <3> QED
      BY <3>2
  <2>2. CASE spans = <<[offset |-> 0, length |-> 0]>>
    <3>1. DOMAIN spans = 1 .. 1
      BY <2>2
    <3>2. spans[1].offset = 0 /\ spans[1].length = 0
      BY <2>2
    <3>3. FewSpans(spans, 1)
      BY <3>1, <3>2 DEF FewSpans, Within
    <3> QED
      BY <3>3
  <2>3. CASE spans = <<[offset |-> -64, length |-> 2], [offset |-> 64, length |-> 130]>>
    <3>1. DOMAIN spans = 1 .. 2
      BY <2>3
    <3>2. /\ spans[1].offset = -64 /\ spans[1].length = 2
          /\ spans[2].offset = 64 /\ spans[2].length = 130
      BY <2>3
    <3>3. FewSpans(spans, 2)
      BY <3>1, <3>2 DEF FewSpans, Within
    <3> QED
      BY <3>3
  <2> QED
    BY <1>1, <2>1, <2>2, <2>3 DEF MCSpanSets
<1>3. \E m \in 0 .. 3 : FewDeltas(deltas, m)
  <2>1. CASE deltas = <<>>
    <3>1. FewDeltas(deltas, 0)
      BY <2>1 DEF FewDeltas
    <3> QED
      BY <3>1
  <2>2. CASE deltas = <<1, -70, 70>>
    <3>1. FewDeltas(deltas, 3)
      BY <2>2 DEF FewDeltas
    <3> QED
      BY <3>1
  <2> QED
    BY <1>1, <2>1, <2>2
<1> QED
  BY <1>1, <1>2, <1>3, SidesAreSmall DEF spans, deltas

\* The histograms of the runs can be sent.
LEMMA HistogramsAreSent ==
  ASSUME NEW h \in MCHistograms, NEW t \in {0, 300}
  PROVE  WireHistogram(h) /\ Within(HistogramLen(h, t), 20000)
<1>1. /\ h.count \in MCCounts /\ h.zero_count \in [float : {FALSE}, value : {200}]
      /\ h.schema \in {0, -4} /\ h.negative \in MCWireSides
      /\ h.positive = [spans |-> <<>>, deltas |-> <<>>, counts |-> 0] /\ h.gauge \in BOOLEAN
  BY DEF MCHistograms
<1>2. WireCount(h.count) /\ WireCount(h.zero_count)
  <2>1. h.count.float \in BOOLEAN /\ h.zero_count.float \in BOOLEAN /\ h.zero_count.value = 200
    BY <1>1 DEF MCCounts
  <2>2. h.count.value \in MCNumbers
    <3>1. 0 \in MCNumbers
      BY DEF MCNumbers
    <3> QED
      BY <1>1, <3>1 DEF MCCounts
  <2>3. \A x \in MCNumbers : Within(x, 100000)
    BY DEF MCNumbers, Within
  <2>4. Within(200, 100000)
    BY DEF Within
  <2> QED
    BY <2>1, <2>2, <2>3, <2>4, SmallLengths DEF WireCount
<1>3. WireInt(h.schema) /\ Within(VarintLen(Zigzag(h.schema)), 10)
  <2>1. h.schema \in Int /\ -100 <= h.schema /\ h.schema <= 200
    BY <1>1
  <2> QED
    BY <2>1, SmallIntegers
<1>4. WireSide(h.negative) /\ Within(SideLen(h.negative), 7000)
  <2> DEFINE side == h.negative
  <2>1. side.spans \in MCSpanSets /\ side.deltas \in {<<>>, <<1, -70, 70>>} /\ side.counts \in {0, 16}
    BY <1>1 DEF MCWireSides
  <2> HIDE DEF side
  <2>2. WireSide(side) /\ Within(SideLen(side), 7000)
    BY <2>1, SidesAreSent
  <2> QED
    BY <2>2 DEF side
<1>5. WireSide(h.positive) /\ Within(SideLen(h.positive), 7000)
  <2> DEFINE side == h.positive
  <2>1. <<>> \in MCSpanSets
    BY DEF MCSpanSets
  <2>2. side.spans \in MCSpanSets /\ side.deltas \in {<<>>, <<1, -70, 70>>} /\ side.counts \in {0, 16}
    BY <1>1, <2>1
  <2> HIDE DEF side
  <2>3. WireSide(side) /\ Within(SideLen(side), 7000)
    BY <2>2, SidesAreSent
  <2> QED
    BY <2>3 DEF side
<1>6. /\ CountLen(h.count) \in Nat /\ CountLen(h.count) <= 11
      /\ CountLen(h.zero_count) \in Nat /\ CountLen(h.zero_count) <= 11
  <2>1. CountLen(h.count) \in 0 .. 11 /\ CountLen(h.zero_count) \in 0 .. 11
    BY <1>2, CountTakes
  <2> QED
    BY <2>1
<1>7. Int64Len(t) \in Nat /\ Int64Len(t) <= 10
  <2>1. t \in Int /\ Within(t, 100000)
    BY DEF Within
  <2>2. Word(t)
    BY <2>1, SmallLengths
  <2> QED
    BY <2>1, <2>2, Int64Takes
<1>8. WireHistogram(h)
  BY <1>1, <1>2, <1>3, <1>4, <1>5 DEF WireHistogram
<1> DEFINE a == CountLen(h.count)
           z == CountLen(h.zero_count)
           v == VarintLen(Zigzag(h.schema))
           n == SideLen(h.negative)
           p == SideLen(h.positive)
           i == Int64Len(t)
<1>9. /\ a \in Nat /\ a <= 11 /\ z \in Nat /\ z <= 11 /\ v \in Nat /\ v <= 10 /\ n \in Nat /\ n <= 7000
      /\ p \in Nat /\ p <= 7000 /\ i \in Nat /\ i <= 10
  BY <1>3, <1>4, <1>5, <1>6, <1>7 DEF Within
<1>10. HistogramLen(h, t)
         = a + z + (IF h.sum = "zero" THEN 0 ELSE 9) + (IF h.schema = 0 THEN 0 ELSE 1 + v)
             + (IF h.zero_threshold = "zero" THEN 0 ELSE 9) + n + p + (IF h.gauge THEN 2 ELSE 0)
             + (IF t = 0 THEN 0 ELSE 1 + i)
  BY DEF HistogramLen
<1> HIDE DEF a, z, v, n, p, i
<1>11. HistogramLen(h, t) \in Nat /\ HistogramLen(h, t) <= 20000
  BY <1>9, <1>10
<1> QED
  BY <1>8, <1>11 DEF Within

\* The labels of the series of the runs, by their lengths.
LEMMA LabelSetsAreShort ==
  ASSUME NEW labels \in MCLabelSets
  PROVE  \E n \in 0 .. 3 :
           /\ DOMAIN labels = 1 .. n
           /\ \A i \in 1 .. n : Within(labels[i].name, 300) /\ Within(labels[i].value, 300)
<1>1. CASE labels = <<>>
  <2>1. DOMAIN labels = 1 .. 0
    BY <1>1
  <2> QED
    BY <2>1
<1>2. CASE labels = <<[name |-> 3, value |-> 0]>>
  <2>1. DOMAIN labels = 1 .. 1
    BY <1>2
  <2>2. labels[1].name = 3 /\ labels[1].value = 0
    BY <1>2
  <2> QED
    BY <2>1, <2>2 DEF Within
<1>3. CASE labels = <<[name |-> 8, value |-> 126], [name |-> 1, value |-> 300]>>
  <2>1. DOMAIN labels = 1 .. 2
    BY <1>3
  <2>2. labels[1].name = 8 /\ labels[1].value = 126 /\ labels[2].name = 1 /\ labels[2].value = 300
    BY <1>3
  <2> QED
    BY <2>1, <2>2 DEF Within
<1> QED
  BY <1>1, <1>2, <1>3 DEF MCLabelSets

\* The series the runs send can be sent.
LEMMA SeriesAreSent ==
  ASSUME NEW series \in MCSeries
  PROVE  WireSeries(series) /\ Word(SeriesLen(series))
<1>1. /\ series.labels \in MCLabelSets
      /\ series.sample.timestamp \in {0, 1, 300, -1}
      /\ series.histogram # Empty =>
           series.histogram \in MCHistograms /\ series.sample.timestamp \in {0, 300}
  BY DEF MCSeries, MCLabelSets, MCSamples
<1> DEFINE labels == series.labels
<1>2. PICK n \in 0 .. 3 :
        /\ DOMAIN labels = 1 .. n
        /\ \A i \in 1 .. n : Within(labels[i].name, 300) /\ Within(labels[i].value, 300)
  BY <1>1, LabelSetsAreShort
<1>3. ASSUME NEW i \in 1 .. n
      PROVE  WireLabel(labels[i]) /\ DelimitedLen(LabelLen(labels[i])) \in Nat
             /\ DelimitedLen(LabelLen(labels[i])) <= 1000
  <2> DEFINE name == labels[i].name
             value == labels[i].value
             length == LabelLen(labels[i])
  <2>1. name \in Nat /\ name <= 300 /\ value \in Nat /\ value <= 300
    BY <1>2 DEF Within
  <2>2. length = StringLen(name) + StringLen(value)
    BY DEF LabelLen
  <2>3. WireLabel(labels[i])
    BY <2>1 DEF WireLabel
  <2> HIDE DEF name, value, length
  <2>4. Within(name, 100000) /\ Within(value, 100000)
    BY <2>1 DEF Within
  <2>5. Within(StringLen(name), name + 11) /\ Within(StringLen(value), value + 11)
    BY <2>4, SmallLengths
  <2>6. length \in Nat /\ length <= 622
    BY <2>1, <2>2, <2>5 DEF Within
  <2>7. Within(length, 100000)
    BY <2>6 DEF Within
  <2>8. Within(DelimitedLen(length), length + 11)
    BY <2>7, SmallLengths
  <2>9. DelimitedLen(length) \in Nat /\ DelimitedLen(length) <= 1000
    BY <2>6, <2>8 DEF Within
  <2> QED
    BY <2>3, <2>9 DEF length
<1>4. WireSample(series.sample)
  <2> DEFINE t == series.sample.timestamp
  <2>1. t \in Int /\ (t >= 0 => Within(t, 100000))
    BY <1>1 DEF Within
  <2> HIDE DEF t
  <2>2. t \in Int /\ (t >= 0 => Word(t))
    BY <2>1, SmallLengths
  <2> QED
    BY <2>2 DEF WireSample, t
<1> DEFINE length == ValueLen(series)
<1>5. length \in Nat /\ length <= 20000
  <2>1. CASE series.histogram # Empty
    <3>1. Within(HistogramLen(series.histogram, series.sample.timestamp), 20000)
      BY <1>1, <2>1, HistogramsAreSent
    <3> QED
      BY <2>1, <3>1 DEF ValueLen, Within
  <2>2. CASE series.histogram = Empty
    <3>1. SampleLen(series.sample) \in Nat /\ SampleLen(series.sample) <= 20
      <4>1. SampleLen(series.sample) \in 0 .. 20
        BY <1>4, SampleTakes
      <4> QED
        BY <4>1
    <3> QED
      BY <2>2, <3>1 DEF ValueLen
  <2> QED
    BY <2>1, <2>2
<1> DEFINE sizes == [i \in 1 .. n |-> DelimitedLen(LabelLen(labels[i]))]
<1>6. SeriesLen(series) = Total(sizes) + DelimitedLen(length)
  BY <1>2 DEF SeriesLen, SumOver
<1>7. FewSizes(sizes, n)
  BY <1>3 DEF FewSizes
<1>8. WireSeries(series)
  <2>1. n \in Nat
    OBVIOUS
  <2>2. \E k \in Nat : DOMAIN labels = 1 .. k /\ \A i \in 1 .. k : WireLabel(labels[i])
    BY <1>2, <1>3, <2>1
  <2>3. series.histogram # Empty => WireHistogram(series.histogram)
    BY <1>1, HistogramsAreSent
  <2> QED
    BY <1>4, <2>2, <2>3 DEF WireSeries
<1> HIDE DEF sizes, length
<1>9. Within(Total(sizes), 3000)
  BY <1>7, FewAreSmall
<1>10. Within(length, 100000)
  BY <1>5 DEF Within
<1>11. Within(DelimitedLen(length), length + 11)
  BY <1>10, SmallLengths
<1>12. Within(SeriesLen(series), 100000)
  BY <1>5, <1>6, <1>9, <1>11 DEF Within
<1> QED
  BY <1>8, <1>12, SmallLengths

\* The strings of the batches of the runs.
WireTexts == {"x", "y", Empty}

\* The batches the runs send can be sent.
LEMMA BatchesAreSent ==
  ASSUME NEW batch \in MCBatches
  PROVE  batch \in Seq(Seq(Pairs(WireTexts))) /\ Word(StartOf(batch, Len(batch) + 1))
<1>1. MCWireLabels \subseteq Pairs(WireTexts)
  BY DEF MCWireLabels, Pairs, WireTexts
<1>2. ASSUME NEW series \in SeqOf(MCWireLabels, 2)
      PROVE  series \in Seq(Pairs(WireTexts)) /\ Len(series) \in Nat /\ Len(series) <= 2
  <2>1. PICK m \in 0 .. 2 : series \in [1 .. m -> MCWireLabels]
    BY DEF SeqOf
  <2>2. series \in [1 .. m -> Pairs(WireTexts)] /\ m \in Nat /\ m <= 2
    BY <1>1, <2>1
  <2> QED
    BY <2>2
<1>3. PICK m \in 0 .. 2 : batch \in [1 .. m -> SeqOf(MCWireLabels, 2)]
  BY DEF MCBatches, SeqOf
<1>4. m \in Nat /\ m \in 0 .. 3 /\ \A i \in 1 .. m : batch[i] \in SeqOf(MCWireLabels, 2)
  BY <1>3
<1>5. batch \in Seq(Seq(Pairs(WireTexts))) /\ Len(batch) = m /\ DOMAIN batch = 1 .. m
  <2>1. batch \in [1 .. m -> Seq(Pairs(WireTexts))]
    BY <1>2, <1>3, <1>4
  <2> QED
    BY <1>4, <2>1
<1> DEFINE sizes == [i \in 1 .. m |-> 2 * Len(batch[i])]
           part == SubSeq(batch, 1, (m + 1) - 1)
<1>6. StartOf(batch, m + 1) = Total(sizes)
  <2>1. part = batch
    <3>1. (m + 1) - 1 = m
      BY <1>4
    <3> QED
      BY <1>5, <3>1
  <2>2. DOMAIN part = 1 .. m
    BY <1>5, <2>1
  <2>3. StartOf(batch, m + 1) = Total([i \in DOMAIN part |-> 2 * Len(part[i])])
    BY DEF StartOf, SumOver
  <2> HIDE DEF part
  <2> QED
    BY <2>1, <2>2, <2>3
<1>7. FewSizes(sizes, m)
  <2>1. \A i \in 1 .. m : 2 * Len(batch[i]) \in Nat /\ 2 * Len(batch[i]) <= 1000
    BY <1>2, <1>4
  <2> QED
    BY <1>4, <2>1 DEF FewSizes
<1> HIDE DEF sizes
<1>8. Within(Total(sizes), 3000)
  BY <1>7, FewAreSmall
<1>9. Within(Total(sizes), 100000)
  BY <1>8 DEF Within
<1> QED
  BY <1>5, <1>6, <1>9, SmallLengths

\* Requests: a message is of a series of the runs, and a request has been encoded
\* from its batch into buffers of whatever contents.
WireTyped ==
  /\ "of" \in DOMAIN work
  /\ work.of = "message" => "series" \in DOMAIN work /\ work.series \in MCSeries
  /\ work.of = "symbols" =>
       /\ {"batch", "message"} \subseteq DOMAIN work /\ work.batch \in MCBatches
       /\ \E scratch : work.message = EncodeV2(work.batch, scratch)

\* The messages and requests of the runs are kept.
LEMMA WireInvariant == Spec => []WireTyped
<1>1. Init => WireTyped
  BY DEF Init, WireTyped
<1>2. WireTyped /\ [Next]_work => WireTyped'
  <2> SUFFICES ASSUME WireTyped, [Next]_work PROVE WireTyped'
    OBVIOUS
  <2>1. /\ "of" \in DOMAIN work'
        /\ work'.of = "message" => LengthStart \/ UNCHANGED work
        /\ work'.of = "symbols" => EncodeStart \/ EncodeStep \/ UNCHANGED work
    BY StepsOfParts DEF WireTyped
  <2>2. CASE LengthStart
    BY <2>2 DEF LengthStart, WireTyped
  <2>3. CASE EncodeStart
    <3>1. work' = [of |-> "symbols", batch |-> <<>>, message |-> EncodeV2(<<>>, NewScratch)]
      BY <2>3 DEF EncodeStart
    <3>2. <<>> \in MCBatches
      <4>1. <<>> \in [1 .. 0 -> SeqOf(MCWireLabels, 2)] /\ 0 \in 0 .. 2
        OBVIOUS
      <4> QED
        BY <4>1 DEF MCBatches, SeqOf
    <3>3. /\ work'.of = "symbols" /\ work'.batch = <<>> /\ work'.message = EncodeV2(<<>>, NewScratch)
          /\ DOMAIN work' = {"of", "batch", "message"}
      BY <3>1
    <3>4. \E scratch : work'.message = EncodeV2(work'.batch, scratch)
      BY <3>3
    <3> QED
      BY <3>2, <3>3, <3>4 DEF WireTyped
  <2>4. CASE EncodeStep
    <3> DEFINE left == [refs |-> work.message.refs, packed |-> work.message.packed]
    <3>1. PICK batch \in MCBatches :
            work' = [work EXCEPT !.batch = batch, !.message = EncodeV2(batch, left)]
      BY <2>4, Zenon DEF EncodeStep
    <3>2. {"batch", "message"} \subseteq DOMAIN work /\ work.of = "symbols"
      BY <2>4 DEF EncodeStep, WireTyped
    <3> HIDE DEF left
    <3>3. /\ work'.batch = batch /\ work'.message = EncodeV2(batch, left)
          /\ DOMAIN work' = DOMAIN work /\ work'.of = "symbols"
      BY <3>1, <3>2
    <3>4. \E scratch : work'.message = EncodeV2(work'.batch, scratch)
      BY <3>3
    <3> QED
      BY <2>1, <3>2, <3>3, <3>4 DEF WireTyped
  <2>5. CASE UNCHANGED work
    BY <2>5 DEF WireTyped
  <2> QED
    BY <2>1, <2>2, <2>3, <2>4, <2>5 DEF WireTyped
<1> QED
  BY <1>1, <1>2, PTL DEF Spec

\* What is announced for a message is what it takes, at every level, and a 2.0
\* request decodes to its batch whatever the requests before it left in the buffers,
\* in every state of the runs of the module.
THEOREM RequestsAreEncoded == Spec => []RequestsEncoded
<1>1. WireTyped => RequestsEncoded
  <2> SUFFICES ASSUME WireTyped PROVE Lengths /\ Symbols
    BY DEF RequestsEncoded
  <2>1. Lengths
    BY SeriesAreSent, LengthsAreExact DEF Lengths, WireTyped
  <2>2. ASSUME work.of = "symbols" PROVE DecodesToBatch(work.message, work.batch)
    <3>1. PICK scratch : work.message = EncodeV2(work.batch, scratch)
      BY <2>2 DEF WireTyped
    <3> DEFINE batch == work.batch
    <3>2. batch \in Seq(Seq(Pairs(WireTexts))) /\ Word(StartOf(batch, Len(batch) + 1))
      BY <2>2, BatchesAreSent DEF WireTyped
    <3>3. Empty \in WireTexts
      BY DEF WireTexts
    <3> HIDE DEF batch
    <3>4. DecodesToBatch(EncodeV2(batch, scratch), batch)
      BY <3>2, <3>3, RequestsDecode
    <3> QED
      BY <3>1, <3>4 DEF batch
  <2> QED
    BY <2>1, <2>2 DEF Symbols
<1> QED
  BY <1>1, WireInvariant, PTL

-----------------------------------------------------------------------------
\* The tokens the runs of the module write discovered labels, jobs and rules with.
TargetTokens ==
  BuildTokens \cup {"a", "b", "x", "y", "h", "j", "http", "none"}

\* What a job is changed to in the runs is a job.
LEMMA JobsTyped ==
  ASSUME NEW Tokens, TargetTokens \subseteq Tokens,
         NEW rules \in {<<>>, <<MCMapRule>>, <<MCMoveRule>>},
         NEW params \in {<<>>, MCScrapeJob.params}
  PROVE  BuildJob([MCScrapeJob EXCEPT !.relabel_configs = rules, !.params = params], Tokens)
<1> DEFINE job == [MCScrapeJob EXCEPT !.relabel_configs = rules, !.params = params]
<1>1. /\ BuildTokens \subseteq Tokens
      /\ {"a", "b", "x", "y", "h", "j", "http", "none", "/"} \subseteq Tokens
  BY DEF TargetTokens, BuildTokens
<1>2. /\ job.name = <<"j">> /\ job.scheme = <<"http">> /\ job.path = <<"/", "x">>
      /\ job.params = params /\ job.relabel_configs = rules
      /\ MCScrapeJob.params = <<Label(B, <<"y">>)>>
  BY DEF MCScrapeJob
<1> HIDE DEF job
<1>3. /\ <<"j">> \in Seq(Tokens) /\ <<"http">> \in Seq(Tokens) /\ <<"/", "x">> \in Seq(Tokens)
      /\ A \in Seq(Tokens) /\ B \in Seq(Tokens) /\ <<"y">> \in Seq(Tokens)
      /\ <<>> \in Seq(Tokens) /\ <<>> \in Templates(Tokens)
  BY <1>1 DEF A, B, Templates
<1>4. params \in Seq(Labels(Tokens))
  <2>1. Label(B, <<"y">>) \in Labels(Tokens)
    BY <1>3 DEF Label, Labels
  <2>2. <<Label(B, <<"y">>)>> \in Seq(Labels(Tokens)) /\ <<>> \in Seq(Labels(Tokens))
    BY <2>1
  <2> QED
    BY <1>2, <2>2
<1>5. /\ ParamPrefix \in Seq(Tokens) /\ AddressLabel \in Seq(Tokens)
      /\ AddressLabel \in Templates(Tokens) /\ AddressLabel # <<>>
  <2>1. ParamPrefix \in Seq(Tokens) /\ AddressLabel \in Seq(Tokens)
    BY <1>1, BuildNames
  <2>2. AddressLabel # <<>>
    BY DEF AddressLabel
  <2> QED
    BY <2>1, <2>2 DEF Templates
<1>6. /\ Pattern(ParamPrefix, "group", <<>>) \in Patterns(Tokens)
      /\ Pattern(<<>>, "group", <<>>) \in Patterns(Tokens)
  BY <1>3, <1>5 DEF Pattern, Patterns
<1>7. <<A>> \in Seq(Seq(Tokens)) /\ <<Capture>> \in Templates(Tokens) /\ 2 \in Nat
  BY <1>3 DEF Templates
<1>8. MCMapRule \in ValidRules(Tokens)
  <2>1. MCMapRule \in RelabelRules(Tokens)
    BY <1>3, <1>6, <1>7 DEF MCMapRule, RelabelRules, Actions
  <2>2. MCMapRule.action = "labelmap" /\ MCMapRule.target_label = <<>>
    BY DEF MCMapRule
  <2> QED
    BY <1>3, <2>1, <2>2 DEF ValidRules, Valid
<1>9. MCMoveRule \in ValidRules(Tokens)
  <2>1. MCMoveRule \in RelabelRules(Tokens)
    BY <1>3, <1>5, <1>6, <1>7 DEF MCMoveRule, RelabelRules, Actions
  <2>2. MCMoveRule.action = "replace" /\ MCMoveRule.target_label = AddressLabel
    BY DEF MCMoveRule
  <2> QED
    BY <1>5, <2>1, <2>2 DEF ValidRules, Valid
<1>10. rules \in Seq(ValidRules(Tokens))
  <2>1. /\ <<>> \in Seq(ValidRules(Tokens)) /\ <<MCMapRule>> \in Seq(ValidRules(Tokens))
        /\ <<MCMoveRule>> \in Seq(ValidRules(Tokens))
    BY <1>8, <1>9
  <2> QED
    BY <2>1
<1>11. BuildJob(job, Tokens)
  BY <1>2, <1>3, <1>4, <1>10 DEF BuildJob
<1> QED
  BY <1>11 DEF job

\* The groups the runs discover are labels.
LEMMA GroupsTyped ==
  ASSUME NEW Tokens, TargetTokens \subseteq Tokens, NEW group \in MCGroups
  PROVE  group \in Seq(Labels(Tokens))
<1> DEFINE Discoverable ==
             {<<Label(A, a), Label(ParamPrefix \o A, p), Label(PathLabel, m), Label(JobLabel, j)>> :
                a \in {<<"x">>, <<"none">>}, p \in {<<"x">>, <<"y">>, <<"none">>},
                m \in {<<"/", "x">>, <<"x">>, <<"none">>}, j \in {<<"x">>, <<"none">>}}
<1>1. PICK labels \in Discoverable :
        group = Pick(labels, {i \in DOMAIN labels : labels[i].value # <<"none">>})
  <2>1. MCGroups = {Pick(labels, {i \in DOMAIN labels : labels[i].value # <<"none">>}) :
                      labels \in Discoverable}
    BY DEF MCGroups, Retain
  <2> HIDE DEF Discoverable
  <2> QED
    BY <2>1
<1>2. PICK a \in {<<"x">>, <<"none">>}, p \in {<<"x">>, <<"y">>, <<"none">>},
           m \in {<<"/", "x">>, <<"x">>, <<"none">>}, j \in {<<"x">>, <<"none">>} :
        labels = <<Label(A, a), Label(ParamPrefix \o A, p), Label(PathLabel, m), Label(JobLabel, j)>>
  BY <1>1
<1> HIDE DEF Discoverable
<1>3. /\ BuildTokens \subseteq Tokens
      /\ {"a", "b", "x", "y", "h", "j", "http", "none", "/"} \subseteq Tokens
  BY DEF TargetTokens, BuildTokens
<1>4. /\ {<<"x">>, <<"y">>, <<"none">>, <<"/", "x">>} \subseteq Seq(Tokens) /\ A \in Seq(Tokens)
  BY <1>3 DEF A
<1>5. {a, p, m, j} \subseteq Seq(Tokens)
  BY <1>2, <1>4
<1>6. /\ ParamPrefix \in Seq(Tokens) /\ PathLabel \in Seq(Tokens) /\ JobLabel \in Seq(Tokens)
  BY <1>3, BuildNames
<1>7. ParamPrefix \o A \in Seq(Tokens)
  BY <1>4, <1>6
<1>8. /\ Label(A, a) \in Labels(Tokens) /\ Label(ParamPrefix \o A, p) \in Labels(Tokens)
      /\ Label(PathLabel, m) \in Labels(Tokens) /\ Label(JobLabel, j) \in Labels(Tokens)
  BY <1>4, <1>5, <1>6, <1>7 DEF Label, Labels
<1>9. labels \in Seq(Labels(Tokens))
  BY <1>2, <1>8
<1>10. \A positions : Pick(labels, positions) \in Seq(Labels(Tokens))
  BY <1>9, PickElements
<1> QED
  BY <1>1, <1>10

\* Targets: groups of discovered labels and a job.
BuildsTyped(Tokens) ==
  /\ "of" \in DOMAIN work
  /\ work.of = "targets" =>
       /\ {"groups", "job"} \subseteq DOMAIN work
       /\ work.groups \in Seq(Seq(Labels(Tokens))) /\ BuildJob(work.job, Tokens)

\* Discovering one more group keeps the types.
LEMMA BuildsInvariant ==
  ASSUME NEW Tokens, TargetTokens \subseteq Tokens
  PROVE  Spec => []BuildsTyped(Tokens)
<1>1. Init => BuildsTyped(Tokens)
  BY DEF Init, BuildsTyped
<1>2. BuildsTyped(Tokens) /\ [Next]_work => BuildsTyped(Tokens)'
  <2> SUFFICES ASSUME BuildsTyped(Tokens), [Next]_work PROVE BuildsTyped(Tokens)'
    OBVIOUS
  <2>1. /\ "of" \in DOMAIN work'
        /\ work'.of = "targets" => ScrapeTargetsStart \/ ScrapeTargetsStep \/ UNCHANGED work
    BY StepsOfParts DEF BuildsTyped
  <2>2. CASE ScrapeTargetsStart
    <3>1. PICK rules \in {<<>>, <<MCMapRule>>, <<MCMoveRule>>},
               params \in {<<>>, MCScrapeJob.params}, group \in MCGroups :
            work' = [of |-> "targets", groups |-> <<group>>,
                     job |-> [MCScrapeJob EXCEPT !.relabel_configs = rules, !.params = params]]
      BY <2>2 DEF ScrapeTargetsStart
    <3> DEFINE job == [MCScrapeJob EXCEPT !.relabel_configs = rules, !.params = params]
    <3>2. BuildJob(job, Tokens)
      BY JobsTyped
    <3>3. group \in Seq(Labels(Tokens))
      BY GroupsTyped
    <3> HIDE DEF job
    <3>4. /\ {"groups", "job"} \subseteq DOMAIN work' /\ work'.groups = <<group>>
          /\ work'.job = job
      BY <3>1 DEF job
    <3>5. <<group>> \in Seq(Seq(Labels(Tokens)))
      BY <3>3
    <3> QED
      BY <2>1, <3>2, <3>4, <3>5 DEF BuildsTyped
  <2>3. CASE ScrapeTargetsStep
    <3>1. PICK group \in MCGroups : work' = [work EXCEPT !.groups = Append(@, group)]
      BY <2>3 DEF ScrapeTargetsStep
    <3>2. /\ {"groups", "job"} \subseteq DOMAIN work
          /\ work.groups \in Seq(Seq(Labels(Tokens))) /\ BuildJob(work.job, Tokens)
      BY <2>3 DEF ScrapeTargetsStep, BuildsTyped
    <3>3. group \in Seq(Labels(Tokens))
      BY GroupsTyped
    <3>4. Append(work.groups, group) \in Seq(Seq(Labels(Tokens)))
      BY <3>2, <3>3
    <3>5. /\ DOMAIN work' = DOMAIN work /\ work'.job = work.job
          /\ work'.groups = Append(work.groups, group)
      BY <3>1, <3>2
    <3> QED
      BY <2>1, <3>2, <3>4, <3>5 DEF BuildsTyped
  <2>4. CASE UNCHANGED work
    BY <2>4 DEF BuildsTyped
  <2> QED
    BY <2>1, <2>2, <2>3, <2>4 DEF BuildsTyped
<1> QED
  BY <1>1, <1>2, PTL DEF Spec

\* The targets of a job that it takes for one are one, however its groups are
\* discovered and relabelled, but where a parameter may stand for a label.
THEOREM IdentitiesHold ==
  ASSUME NEW Tokens, TargetTokens \subseteq Tokens, TextsAreClosed(Tokens)
  PROVE  Spec => []Identities
<1>1. BuildsTyped(Tokens) => Identities
  <2> SUFFICES ASSUME BuildsTyped(Tokens), work.of = "targets",
                      NEW i \in DOMAIN work.groups, NEW j \in DOMAIN work.groups,
                      BuildTarget(<<"h">>, work.groups[i], work.job) # Dropped,
                      BuildTarget(<<"h">>, work.groups[j], work.job) # Dropped
               PROVE  IdentityTellsApart(BuildTarget(<<"h">>, work.groups[i], work.job),
                                         BuildTarget(<<"h">>, work.groups[j], work.job))
    BY DEF Identities
  <2> DEFINE job == work.job
             groups == work.groups
             address == <<"h">>
  <2>1. groups \in Seq(Seq(Labels(Tokens))) /\ BuildJob(job, Tokens)
    BY DEF BuildsTyped
  <2>2. BuildTokens \subseteq Tokens /\ address \in Seq(Tokens)
    <3>1. BuildTokens \subseteq Tokens /\ "h" \in Tokens
      BY DEF TargetTokens
    <3> QED
      BY <3>1
  <2>3. i \in DOMAIN groups /\ j \in DOMAIN groups
        /\ BuildTarget(address, groups[i], job) # Dropped
        /\ BuildTarget(address, groups[j], job) # Dropped
    OBVIOUS
  <2> HIDE DEF job, groups, address
  <2>4. ASSUME NEW k \in DOMAIN groups, BuildTarget(address, groups[k], job) # Dropped
        PROVE  BuildTarget(address, groups[k], job) \in Targets(Tokens)
    <3>1. groups[k] \in Seq(Labels(Tokens))
      BY <2>1
    <3> QED
      BY <2>1, <2>2, <2>4, <3>1, TargetsAreBuilt
  <2>5. /\ BuildTarget(address, groups[i], job) \in Targets(Tokens)
        /\ BuildTarget(address, groups[j], job) \in Targets(Tokens)
    BY <2>3, <2>4
  <2>6. IdentityTellsApart(BuildTarget(address, groups[i], job), BuildTarget(address, groups[j], job))
    BY <2>5, IdentitiesTell
  <2> QED
    BY <2>6 DEF job, groups, address
<1> QED
  BY <1>1, BuildsInvariant, PTL

-----------------------------------------------------------------------------
\* The tokens the runs of the module write the labels of series and targets with.
BatchTokens ==
  {"exported_", "__", "name", "job", "instance", "a", "b", "x", "j", "h", "e", "none"}
    \cup Range(ReportNames)

\* The labels of a scraped series but for its name, one of them marked to be left out
\* or not.
MCOwn ==
  {<<Label(A, a), Label(JobLabel, j), Label(Exported(JobLabel), e), Label(B, b)>> :
     a \in {<<"x">>, <<>>, <<"none">>}, j \in {<<"j">>, <<"x">>, <<"none">>},
     e \in {<<"x">>, <<"none">>}, b \in {<<"x">>, <<"none">>}}

\* What is made of them is a series.
KeptOf(own) == {own[i] : i \in {k \in 1 .. 4 : own[k].value # <<"none">>}}
RawOf(name, own) ==
  <<Label(MetricName, name)>> \o Pick(own, {i \in DOMAIN own : own[i].value # <<"none">>})

\* The names of these labels are texts, and different.
LEMMA BatchNames ==
  /\ {MetricName, A, B, JobLabel, InstanceLabel, Exported(JobLabel)} \subseteq Seq(BatchTokens)
  /\ A # JobLabel /\ A # B /\ JobLabel # B /\ JobLabel # InstanceLabel
  /\ Exported(JobLabel) \notin {A, B, JobLabel, InstanceLabel, MetricName}
  /\ MetricName \notin {A, B, JobLabel, InstanceLabel}
  /\ \A name \in Seq(BatchTokens) : Exported(name) # B /\ Exported(name) # MetricName
<1>1. {"exported_", "__", "name", "job", "instance", "a", "b"} \subseteq BatchTokens
  BY DEF BatchTokens
<1> HIDE DEF BatchTokens
<1>2. {MetricName, A, B, JobLabel, InstanceLabel} \subseteq Seq(BatchTokens)
  BY <1>1 DEF MetricName, A, B, JobLabel, InstanceLabel
<1>3. /\ A # JobLabel /\ A # B /\ JobLabel # B /\ JobLabel # InstanceLabel
      /\ MetricName \notin {A, B, JobLabel, InstanceLabel}
  BY DEF MetricName, A, B, JobLabel, InstanceLabel
<1>4. ASSUME NEW name \in Seq(BatchTokens)
      PROVE  /\ Exported(name) \in Seq(BatchTokens) /\ Exported(name)[1] = "exported_"
             /\ Exported(name) # MetricName /\ Exported(name) # name
  <2>1. <<"exported_">> \in Seq(BatchTokens) /\ <<"exported_">>[1] = "exported_"
        /\ Len(<<"exported_">>) = 1 /\ 1 \in 1 .. 1
    BY <1>1
  <2>2. (<<"exported_">> \o name)[1] = "exported_"
    BY <2>1, Joined
  <2>3. /\ Exported(name) \in Seq(BatchTokens) /\ Exported(name) # MetricName
        /\ Exported(name) # name
    BY <1>1, ExportedDiffer
  <2> QED
    BY <2>2, <2>3 DEF Exported
<1>5. A[1] # "exported_" /\ B[1] # "exported_" /\ InstanceLabel[1] # "exported_"
  BY DEF A, B, InstanceLabel
<1> QED
  BY <1>2, <1>3, <1>4, <1>5

\* What a scraped series has before labels are left out: labels of different names.
LEMMA OwnTyped ==
  ASSUME NEW own \in MCOwn
  PROVE  /\ own \in LabelSets(BatchTokens) /\ DOMAIN own = 1 .. 4 /\ Len(own) = 4
         /\ own[1].name = A /\ own[2].name = JobLabel
         /\ own[3].name = Exported(JobLabel) /\ own[4].name = B
         /\ \A i \in 1 .. 4 : own[i] = Label(own[i].name, own[i].value)
<1>1. PICK a \in {<<"x">>, <<>>, <<"none">>}, j \in {<<"j">>, <<"x">>, <<"none">>},
           e \in {<<"x">>, <<"none">>}, b \in {<<"x">>, <<"none">>} :
        own = <<Label(A, a), Label(JobLabel, j), Label(Exported(JobLabel), e), Label(B, b)>>
  BY DEF MCOwn
<1>2. {a, j, e, b} \subseteq Seq(BatchTokens)
  <2>1. {"x", "j", "none"} \subseteq BatchTokens
    BY DEF BatchTokens
  <2>2. {<<"x">>, <<"j">>, <<"none">>, <<>>} \subseteq Seq(BatchTokens)
    BY <2>1
  <2> QED
    BY <1>1, <2>2
<1>3. /\ DOMAIN own = 1 .. 4 /\ Len(own) = 4
      /\ own[1] = Label(A, a) /\ own[2] = Label(JobLabel, j)
      /\ own[3] = Label(Exported(JobLabel), e) /\ own[4] = Label(B, b)
  BY <1>1
<1>4. 1 .. 4 = {1, 2, 3, 4}
  OBVIOUS
<1>5. /\ Label(A, a) \in Labels(BatchTokens) /\ Label(JobLabel, j) \in Labels(BatchTokens)
      /\ Label(Exported(JobLabel), e) \in Labels(BatchTokens)
      /\ Label(B, b) \in Labels(BatchTokens)
  BY <1>2, BatchNames DEF Label, Labels
<1>6. own \in Seq(Labels(BatchTokens))
  BY <1>1, <1>5
<1>7. /\ own[1].name = A /\ own[2].name = JobLabel
      /\ own[3].name = Exported(JobLabel) /\ own[4].name = B
      /\ \A i \in 1 .. 4 : own[i] = Label(own[i].name, own[i].value)
  BY <1>3, <1>4 DEF Label
<1>8. NamesUnique(own)
  BY <1>3, <1>4, <1>7, BatchNames DEF NamesUnique
<1> QED
  BY <1>3, <1>6, <1>7, <1>8 DEF LabelSets

\* The labels of a scraped series: its name and those not left out.
LEMMA RawTyped ==
  ASSUME NEW raw \in MCRaw
  PROVE  /\ raw \in LabelSets(BatchTokens)
         /\ \E name \in {<<"x">>, <<"up">>}, own \in MCOwn :
              raw = RawOf(name, own) /\ Range(raw) = {Label(MetricName, name)} \cup KeptOf(own)
<1>1. PICK name \in {<<"x">>, <<"up">>}, own \in MCOwn :
        raw = RawOf(name, own)
  <2> DEFINE Names == {<<"x">>, <<"up">>}
  <2>1. MCRaw = {RawOf(name, own) : name \in Names, own \in MCOwn}
    BY SMTT(30) DEF MCRaw, MCOwn, Retain, RawOf
  <2> HIDE DEF Names
  <2>2. \E name \in Names, own \in MCOwn : raw = RawOf(name, own)
    BY <2>1
  <2> QED
    BY <2>2 DEF Names
<1> DEFINE positions == {i \in DOMAIN own : own[i].value # <<"none">>}
           label == Label(MetricName, name)
           one == <<label>>
           kept == Pick(own, positions)
<1>2. raw = one \o kept
  BY <1>1 DEF RawOf
<1>3. name \in Seq(BatchTokens)
  <2>1. "x" \in BatchTokens /\ "up" \in BatchTokens
    <3>1. "up" \in Range(ReportNames)
      BY DEF Range, ReportNames
    <3> QED
      BY <3>1 DEF BatchTokens
  <2>2. <<"x">> \in Seq(BatchTokens) /\ <<"up">> \in Seq(BatchTokens)
    BY <2>1
  <2> QED
    BY <1>1, <2>2
<1>4. label \in Labels(BatchTokens) /\ label.name = MetricName
  BY <1>3, BatchNames DEF Label, Labels
<1>5. one \in Seq(Labels(BatchTokens)) /\ Len(one) = 1 /\ one[1] = label
  BY <1>4
<1>6. /\ own \in LabelSets(BatchTokens) /\ own \in Seq(Labels(BatchTokens))
      /\ DOMAIN own = 1 .. 4 /\ Len(own) = 4
      /\ own[1].name = A /\ own[2].name = JobLabel
      /\ own[3].name = Exported(JobLabel) /\ own[4].name = B
  BY OwnTyped DEF LabelSets
<1>7. /\ positions = {k \in 1 .. 4 : own[k].value # <<"none">>}
      /\ \A i \in 1 .. 4 : own[i].name # MetricName
  <2>1. 1 .. 4 = {1, 2, 3, 4}
    OBVIOUS
  <2> QED
    BY <1>6, <2>1, BatchNames
<1> HIDE DEF positions, label, one
<1>8. kept \in LabelSets(BatchTokens)
  BY <1>6, PickIsLabelSet
<1>9. /\ \A k \in 1 .. Len(kept) : \E i \in 1 .. 4 : i \in positions /\ kept[k] = own[i]
      /\ \A i \in 1 .. 4 : i \in positions => \E k \in 1 .. Len(kept) : kept[k] = own[i]
  <2> HIDE DEF kept
  <2>1. own \in Seq(Labels(BatchTokens)) /\ Len(own) = 4 /\ kept = Pick(own, positions)
    BY <1>6 DEF kept
  <2>2. /\ \A k \in 1 .. Len(kept) : \E i \in 1 .. Len(own) : i \in positions /\ kept[k] = own[i]
        /\ \A i \in 1 .. Len(own) : i \in positions => \E k \in 1 .. Len(kept) : kept[k] = own[i]
    <3> DEFINE u == Pick(own, positions)
    <3>0. own \in Seq(Labels(BatchTokens))
      BY <2>1
    <3>1. /\ \A k \in 1 .. Len(u) : \E i \in 1 .. Len(own) : i \in positions /\ u[k] = own[i]
          /\ \A i \in 1 .. Len(own) : i \in positions => \E k \in 1 .. Len(u) : u[k] = own[i]
      BY <3>0, PickElements
    <3> QED
      BY <2>1, <3>1
  <2> QED
    BY <2>1, <2>2
<1> HIDE DEF kept
<1>10. kept \in Seq(Labels(BatchTokens)) /\ DOMAIN kept = 1 .. Len(kept) /\ Len(kept) \in Nat
  BY <1>8 DEF LabelSets
<1>11. label.name \notin LabelNames(kept)
  BY <1>4, <1>7, <1>9, <1>10 DEF LabelNames
<1>12. raw \in LabelSets(BatchTokens)
  BY <1>2, <1>4, <1>8, <1>11, PrependSays DEF one
<1>13. /\ raw \in Seq(Labels(BatchTokens)) /\ Len(raw) = 1 + Len(kept)
       /\ raw[1] = label /\ \A k \in 1 .. Len(kept) : raw[1 + k] = kept[k]
  <2> HIDE DEF kept
  <2>0. one \in Seq(Labels(BatchTokens)) /\ kept \in Seq(Labels(BatchTokens))
    BY <1>5, <1>10
  <2>1. /\ one \o kept \in Seq(Labels(BatchTokens)) /\ Len(one \o kept) = Len(one) + Len(kept)
        /\ \A i \in 1 .. Len(one) : (one \o kept)[i] = one[i]
        /\ \A i \in 1 .. Len(kept) : (one \o kept)[Len(one) + i] = kept[i]
    BY <2>0, Joined
  <2> QED
    BY <1>2, <1>5, <2>1
<1>14. Range(raw) = {label} \cup {own[i] : i \in positions}
  <2>1. DOMAIN raw = 1 .. 1 + Len(kept)
    BY <1>13
  <2>2. ASSUME NEW l \in Range(raw) PROVE l \in {label} \cup {own[i] : i \in positions}
    <3>1. PICK k \in 1 .. 1 + Len(kept) : l = raw[k]
      BY <2>1, <2>2 DEF Range
    <3>2. CASE k = 1
      BY <1>13, <3>1, <3>2
    <3>3. CASE k # 1
      <4>1. k - 1 \in 1 .. Len(kept) /\ 1 + (k - 1) = k
        BY <1>10, <3>3
      <4>2. l = kept[k - 1]
        BY <1>13, <3>1, <4>1
      <4> QED
        BY <1>9, <4>1, <4>2
    <3> QED
      BY <3>2, <3>3
  <2>3. ASSUME NEW i \in positions PROVE own[i] \in Range(raw)
    <3>1. i \in 1 .. 4
      BY <1>7
    <3>2. PICK k \in 1 .. Len(kept) : kept[k] = own[i]
      BY <1>9, <3>1
    <3>3. 1 + k \in 1 .. 1 + Len(kept) /\ raw[1 + k] = own[i]
      BY <1>10, <1>13, <3>2
    <3> QED
      BY <2>1, <3>3 DEF Range
  <2>4. label \in Range(raw)
    <3>1. 1 \in DOMAIN raw
      BY <1>10, <2>1
    <3> QED
      BY <1>13, <3>1 DEF Range
  <2> QED
    BY <2>2, <2>3, <2>4
<1> QED
  BY <1>1, <1>7, <1>12, <1>14 DEF label, KeptOf

\* Series of the runs with the same labels are one.
LEMMA RawsDiffer ==
  ASSUME NEW r \in MCRaw, NEW s \in MCRaw, Range(r) = Range(s)
  PROVE  r = s
<1>1. PICK m \in {<<"x">>, <<"up">>}, own \in MCOwn :
        r = RawOf(m, own) /\ Range(r) = {Label(MetricName, m)} \cup KeptOf(own)
  BY RawTyped
<1>2. PICK n \in {<<"x">>, <<"up">>}, other \in MCOwn :
        s = RawOf(n, other) /\ Range(s) = {Label(MetricName, n)} \cup KeptOf(other)
  BY RawTyped
<1> DEFINE Names == <<A, JobLabel, Exported(JobLabel), B>>
<1>3. /\ own \in Seq(Labels(BatchTokens)) /\ Len(own) = 4
      /\ other \in Seq(Labels(BatchTokens)) /\ Len(other) = 4
      /\ \A i \in 1 .. 4 : own[i].name = Names[i] /\ other[i].name = Names[i]
      /\ \A i \in 1 .. 4 : own[i] = Label(Names[i], own[i].value)
                           /\ other[i] = Label(Names[i], other[i].value)
  <2>1. 1 .. 4 = {1, 2, 3, 4}
    OBVIOUS
  <2>2. /\ own \in LabelSets(BatchTokens) /\ Len(own) = 4
        /\ own[1].name = A /\ own[2].name = JobLabel
        /\ own[3].name = Exported(JobLabel) /\ own[4].name = B
        /\ \A i \in 1 .. 4 : own[i] = Label(own[i].name, own[i].value)
    BY OwnTyped
  <2>3. /\ other \in LabelSets(BatchTokens) /\ Len(other) = 4
        /\ other[1].name = A /\ other[2].name = JobLabel
        /\ other[3].name = Exported(JobLabel) /\ other[4].name = B
        /\ \A i \in 1 .. 4 : other[i] = Label(other[i].name, other[i].value)
    BY OwnTyped
  <2>4. \A i \in 1 .. 4 : own[i].name = Names[i] /\ other[i].name = Names[i]
    BY <2>1, <2>2, <2>3
  <2> HIDE DEF Names
  <2> QED
    BY <2>2, <2>3, <2>4 DEF LabelSets
<1>4. /\ \A i, j \in 1 .. 4 : Names[i] = Names[j] => i = j
      /\ \A i \in 1 .. 4 : Names[i] # MetricName
  <2>1. 1 .. 4 = {1, 2, 3, 4}
    OBVIOUS
  <2> QED
    BY <2>1, BatchNames
<1> HIDE DEF Names
<1>5. m = n
  <2>1. Label(MetricName, m) \in {Label(MetricName, n)} \cup KeptOf(other)
    BY <1>1, <1>2
  <2>2. \A label \in KeptOf(other) : label.name # MetricName
    BY <1>3, <1>4 DEF KeptOf
  <2> QED
    BY <2>1, <2>2 DEF Label
<1>6. ASSUME NEW i \in 1 .. 4, NEW u \in MCOwn, NEW v \in MCOwn, u[i].value # <<"none">>,
             \A k \in 1 .. 4 : u[k].name = Names[k] /\ v[k].name = Names[k],
             KeptOf(u) \subseteq {Label(MetricName, n)} \cup KeptOf(v)
      PROVE  u[i] = v[i]
  <2>1. u[i] \in KeptOf(u)
    BY <1>6 DEF KeptOf
  <2>2. u[i].name # MetricName
    BY <1>4, <1>6
  <2>3. u[i] \in KeptOf(v)
    BY <1>6, <2>1, <2>2 DEF Label
  <2>4. PICK k \in 1 .. 4 : u[i] = v[k]
    BY <2>3 DEF KeptOf
  <2>5. Names[i] = Names[k]
    BY <1>6, <2>4
  <2> QED
    BY <1>4, <2>4, <2>5
<1>7. KeptOf(own) \subseteq {Label(MetricName, n)} \cup KeptOf(other)
      /\ KeptOf(other) \subseteq {Label(MetricName, n)} \cup KeptOf(own)
  BY <1>1, <1>2, <1>5
<1>8. ASSUME NEW i \in 1 .. 4 PROVE own[i] = other[i]
  <2>1. CASE own[i].value # <<"none">>
    BY <1>3, <1>6, <1>7, <2>1
  <2>2. CASE other[i].value # <<"none">>
    BY <1>3, <1>6, <1>7, <2>2
  <2>3. CASE own[i].value = <<"none">> /\ other[i].value = <<"none">>
    BY <1>3, <2>3
  <2> QED
    BY <2>1, <2>2, <2>3
<1>9. own = other
  BY <1>3, <1>8, SameElements
<1> QED
  BY <1>1, <1>2, <1>5, <1>9

\* The targets the batches of the runs are scraped from are targets, none with a name
\* of the metric or of an empty label that is moved under a label of the agent.
LEMMA TargetsTyped ==
  ASSUME NEW labels \in MCTargetSets
  PROVE  labels \in TargetLabels(BatchTokens) /\ MetricName \notin LabelNames(labels)
<1> DEFINE L(label) == label \in Labels(BatchTokens) /\ label.value # <<>>
                       /\ label.name # MetricName
<1>1. /\ {"j", "h", "x"} \subseteq BatchTokens
      /\ {<<"j">>, <<"h">>, <<"x">>} \subseteq Seq(BatchTokens)
  <2>1. {"j", "h", "x"} \subseteq BatchTokens
    BY DEF BatchTokens
  <2> QED
    BY <2>1
<1>2. /\ L(Label(JobLabel, <<"j">>)) /\ L(Label(InstanceLabel, <<"h">>))
      /\ L(Label(A, <<"x">>)) /\ L(Label(Exported(JobLabel), <<"x">>))
  BY <1>1, BatchNames DEF Label, Labels
<1> HIDE DEF L
<1>3. ASSUME NEW a, L(a), labels = <<a>>
      PROVE  labels \in TargetLabels(BatchTokens) /\ MetricName \notin LabelNames(labels)
  BY <1>3 DEF L, TargetLabels, LabelSets, NamesUnique, LabelNames
<1>4. ASSUME NEW a, NEW b, L(a), L(b), a.name # b.name, labels = <<a, b>>
      PROVE  labels \in TargetLabels(BatchTokens) /\ MetricName \notin LabelNames(labels)
  <2>1. labels \in Seq(Labels(BatchTokens)) /\ DOMAIN labels = {1, 2}
        /\ labels[1] = a /\ labels[2] = b
    BY <1>4 DEF L
  <2>2. NamesUnique(labels)
    BY <1>4, <2>1 DEF NamesUnique
  <2> QED
    BY <1>4, <2>1, <2>2 DEF L, TargetLabels, LabelSets, LabelNames
<1>5. /\ Label(InstanceLabel, <<"h">>).name # Label(JobLabel, <<"j">>).name
      /\ Label(A, <<"x">>).name # Label(JobLabel, <<"j">>).name
      /\ Label(Exported(JobLabel), <<"x">>).name # Label(JobLabel, <<"j">>).name
  BY BatchNames DEF Label
<1> QED
  BY <1>2, <1>3, <1>4, <1>5 DEF MCTargetSets

-----------------------------------------------------------------------------
\* Batches: series of the runs, no two the same, under one of their targets.
BatchTyped ==
  /\ "of" \in DOMAIN work
  /\ work.of = "batch" =>
       /\ {"target", "scraped", "job"} \subseteq DOMAIN work
       /\ work.target.labels \in MCTargetSets
       /\ work.job.honor_labels \in BOOLEAN /\ work.job.external = MCScrapeJob.external
       /\ work.scraped \in Seq(MCRaw) \cup {Unusable}
       /\ work.scraped # Unusable =>
            \A i, j \in DOMAIN work.scraped : work.scraped[i] = work.scraped[j] => i = j

\* What is put behind elements it is none of leaves them without repetition.
LEMMA AppendedOther ==
  ASSUME NEW S, NEW s \in Seq(S), NEW x \in S, x \notin Range(s),
         \A i, j \in DOMAIN s : s[i] = s[j] => i = j
  PROVE  \A i, j \in DOMAIN Append(s, x) : Append(s, x)[i] = Append(s, x)[j] => i = j
<1> DEFINE u == Append(s, x)
           n == Len(s)
<1>1. /\ u \in Seq(S) /\ Len(u) = n + 1 /\ u[n + 1] = x /\ n \in Nat
      /\ \A i \in 1 .. n : u[i] = s[i]
  BY Appended
<1>2. DOMAIN s = 1 .. n /\ \A i \in 1 .. n : s[i] # x
  BY DEF Range
<1> HIDE DEF u, n
<1>3. DOMAIN u = 1 .. n + 1 /\ \A i \in 1 .. n + 1 : i \in 1 .. n \/ i = n + 1
  BY <1>1
<1>4. \A i, j \in 1 .. n + 1 : u[i] = u[j] => i = j
  BY <1>1, <1>2, <1>3
<1> QED
  BY <1>3, <1>4 DEF u

\* Scraping one more series keeps the types.
LEMMA BatchInvariant == Spec => []BatchTyped
<1>1. Init => BatchTyped
  BY DEF Init, BatchTyped
<1>2. BatchTyped /\ [Next]_work => BatchTyped'
  <2> SUFFICES ASSUME BatchTyped, [Next]_work PROVE BatchTyped'
    OBVIOUS
  <2>1. /\ "of" \in DOMAIN work'
        /\ work'.of = "batch" => ScrapeBatchStart \/ ScrapeBatchStep \/ UNCHANGED work
    BY StepsOfParts DEF BatchTyped
  <2>2. CASE ScrapeBatchStart
    <3>1. PICK labels \in MCTargetSets, honor \in BOOLEAN, limit \in {0, 1},
               scraped \in {<<>>, Unusable} :
            work' = [of |-> "batch", target |-> [labels |-> labels], scraped |-> scraped,
                     job |-> [MCScrapeJob EXCEPT !.honor_labels = honor,
                                                 !.sample_limit = limit]]
      BY <2>2 DEF ScrapeBatchStart
    <3> DEFINE job == [MCScrapeJob EXCEPT !.honor_labels = honor, !.sample_limit = limit]
    <3>2. job.honor_labels = honor /\ job.external = MCScrapeJob.external
      BY DEF MCScrapeJob
    <3> HIDE DEF job
    <3>3. /\ {"target", "scraped", "job"} \subseteq DOMAIN work'
          /\ work'.target.labels = labels /\ work'.scraped = scraped /\ work'.job = job
      BY <3>1 DEF job
    <3>4. labels \in MCTargetSets /\ honor \in BOOLEAN /\ scraped \in {<<>>, Unusable}
      BY <3>1
    <3>5. work'.scraped = Unusable \/ (work'.scraped = <<>> /\ DOMAIN work'.scraped = {})
      BY <3>3, <3>4
    <3>6. <<>> \in Seq(MCRaw)
      OBVIOUS
    <3>7. work'.job.honor_labels \in BOOLEAN /\ work'.job.external = MCScrapeJob.external
      <4>1. honor = TRUE \/ honor = FALSE
        BY <3>4
      <4>2. work'.job.honor_labels = honor
        BY <3>2, <3>3
      <4> QED
        BY <3>2, <3>3, <4>1, <4>2
    <3> QED
      BY <2>1, <3>3, <3>4, <3>5, <3>6, <3>7 DEF BatchTyped
  <2>3. CASE ScrapeBatchStep
    <3>1. PICK raw \in MCRaw : raw \notin Range(work.scraped)
                               /\ work' = [work EXCEPT !.scraped = Append(@, raw)]
      BY <2>3 DEF ScrapeBatchStep
    <3>2. work.of = "batch" /\ work.scraped # Unusable
      BY <2>3 DEF ScrapeBatchStep
    <3>3. /\ {"target", "scraped", "job"} \subseteq DOMAIN work
          /\ work.scraped \in Seq(MCRaw)
          /\ \A i, j \in DOMAIN work.scraped : work.scraped[i] = work.scraped[j] => i = j
      BY <3>2 DEF BatchTyped
    <3>4. /\ DOMAIN work' = DOMAIN work /\ work'.target = work.target /\ work'.job = work.job
          /\ work'.scraped = Append(work.scraped, raw)
      BY <3>1, <3>3
    <3>5. Append(work.scraped, raw) \in Seq(MCRaw)
      BY <3>3
    <3>6. \A i, j \in DOMAIN Append(work.scraped, raw) :
            Append(work.scraped, raw)[i] = Append(work.scraped, raw)[j] => i = j
      BY <3>1, <3>3, AppendedOther
    <3> QED
      BY <2>1, <3>2, <3>3, <3>4, <3>5, <3>6 DEF BatchTyped
  <2>4. CASE UNCHANGED work
    BY <2>4 DEF BatchTyped
  <2> QED
    BY <2>1, <2>2, <2>3, <2>4 DEF BatchTyped
<1> QED
  BY <1>1, <1>2, PTL DEF Spec

\* The series of a batch have the labels promised, and it has one sample of each, for
\* every target and series of the runs, with honor_labels or not, over or within the
\* limit, whatever is scraped.
THEOREM BatchesArePromised ==
  ASSUME Dropped \notin LabelSets(BatchTokens)
  PROVE  Spec => []BatchesPromised
<1>1. BatchTyped => BatchesPromised
  <2> SUFFICES ASSUME BatchTyped, work.of = "batch"
               PROVE  /\ work.scraped # Unusable =>
                           \A i \in DOMAIN work.scraped :
                             LabelsAsPromised(work.scraped[i], work.target, work.job)
                      /\ BatchOfSeries(work.scraped, work.target, work.job)
    BY DEF BatchesPromised, Promises, Batches
  <2> DEFINE target == work.target
             job == work.job
             scraped == work.scraped
  <2>1. /\ target.labels \in TargetLabels(BatchTokens)
        /\ MetricName \notin LabelNames(target.labels)
    <3>1. work.target.labels \in MCTargetSets
      BY DEF BatchTyped
    <3> QED
      BY <3>1, TargetsTyped
  <2>2. job.honor_labels \in BOOLEAN
    BY DEF BatchTyped
  <2>3. /\ job.external \in Seq(Labels(BatchTokens)) /\ LabelNames(job.external) = {B}
    <3>1. job.external = <<Label(B, <<"e">>)>>
      BY DEF BatchTyped, MCScrapeJob
    <3>2. "e" \in BatchTokens
      BY DEF BatchTokens
    <3>3. Label(B, <<"e">>) \in Labels(BatchTokens) /\ Label(B, <<"e">>).name = B
      BY <3>2, BatchNames DEF Label, Labels
    <3> QED
      BY <3>1, <3>3 DEF LabelNames
  <2>4. /\ scraped \in Seq(MCRaw) \cup {Unusable}
        /\ scraped # Unusable => \A i, j \in DOMAIN scraped : scraped[i] = scraped[j] => i = j
    BY DEF BatchTyped
  <2>5. {"exported_", "__", "name"} \cup Range(ReportNames) \subseteq BatchTokens
    BY DEF BatchTokens
  <2> HIDE DEF target, job, scraped
  <2>6. ASSUME scraped # Unusable
        PROVE  /\ scraped \in Seq(LabelSets(BatchTokens))
               /\ \A i \in DOMAIN scraped : scraped[i] \in MCRaw
                                            /\ scraped[i] \in LabelSets(BatchTokens)
    <3>1. scraped \in Seq(MCRaw)
      BY <2>4, <2>6
    <3>2. MCRaw \subseteq LabelSets(BatchTokens)
      BY RawTyped
    <3> QED
      BY <3>1, <3>2
  <2>7. ASSUME scraped # Unusable, NEW i \in DOMAIN scraped
        PROVE  LabelsAsPromised(scraped[i], target, job)
    <3> DEFINE raw == scraped[i]
    <3>1. raw \in LabelSets(BatchTokens)
      BY <2>6, <2>7
    <3>2. \A name \in LabelNames(target.labels) \cap LabelNames(raw) :
            Get(raw, name) = <<>> => Exported(name) \notin LabelNames(job.external)
      <4>1. LabelNames(raw) \subseteq Seq(BatchTokens)
        <5>1. raw \in Seq(Labels(BatchTokens))
          BY <3>1 DEF LabelSets
        <5> HIDE DEF raw
        <5>2. \A k \in DOMAIN raw : raw[k] \in Labels(BatchTokens)
          BY <5>1
        <5> QED
          BY <5>2 DEF Labels, LabelNames
      <4> QED
        BY <2>3, <4>1, BatchNames
    <3>3. "exported_" \in BatchTokens
      BY <2>5
    <3> HIDE DEF raw
    <3>4. LabelsAsPromised(raw, target, job)
      BY <2>1, <2>2, <2>3, <3>1, <3>2, <3>3, LabelsArePromised
    <3> QED
      BY <3>4 DEF raw
  <2>8. Nameless(target, job)
    BY <2>1, <2>3, BatchNames DEF Nameless
  <2>9. scraped # Unusable =>
          \A i, j \in DOMAIN scraped : Range(scraped[i]) = Range(scraped[j]) => i = j
    BY <2>4, <2>6, RawsDiffer
  <2>10. scraped \in Seq(LabelSets(BatchTokens)) \cup {Unusable}
    BY <2>6
  <2>11. BatchOfSeries(scraped, target, job)
    BY <2>1, <2>2, <2>3, <2>5, <2>8, <2>9, <2>10, BatchHasEachOnce
  <2> QED
    BY <2>7, <2>11 DEF scraped, target, job
<1> QED
  BY <1>1, BatchInvariant, PTL

-----------------------------------------------------------------------------
\* What a job offers its answer is read as, and a body is read whole within its
\* limit and refused beyond it, in every state of the runs of the module, over any
\* texts of credentials.
THEOREM AnswersAreRead ==
  ASSUME NEW Texts, TextsAssumption(Texts), {"t", "f"} \subseteq Texts,
         \A media, params : IsSet(ContentType(media, params))
  PROVE  Spec => []AnswersRead
<1>1. ConfigTyped(Texts) /\ BodyTyped => AnswersRead
  <2> SUFFICES ASSUME ConfigTyped(Texts), BodyTyped PROVE Offers /\ Bodies
    BY DEF AnswersRead
  <2>1. Bodies
    BY BodyIsBounded DEF Bodies, BodyTyped
  <2>2. ASSUME work.of = "config", Accepts(work.config)
        PROVE  OffersUnderstood(work.config.jobs[1], work.config.global)
    <3> DEFINE config == work.config
    <3>1. /\ DOMAIN config.jobs = {1, 2} /\ JobTyped(config.jobs[1], Texts)
          /\ config.global.protocols \in {Unset} \cup Seq(ProtocolNames)
      BY <2>2 DEF ConfigTyped, FileTyped
    <3>2. /\ IsSet(config.global.protocols) => ValidProtocols(config.global.protocols)
          /\ IsSet(config.jobs[1].protocols) => ValidProtocols(config.jobs[1].protocols)
      BY <2>2, <3>1 DEF Accepts, Validates, ValidJob
    <3> HIDE DEF config
    <3>3. /\ AcceptedProtocols(config.jobs[1].protocols)
          /\ AcceptedProtocols(config.global.protocols)
      BY <3>1, <3>2 DEF JobTyped, AcceptedProtocols, IsSet
    <3>4. OffersUnderstood(config.jobs[1], config.global)
      BY <3>3, OffersAreUnderstood, Zenon
    <3> QED
      BY <3>4 DEF config
  <2> QED
    BY <2>1, <2>2 DEF Offers
<1> QED
  BY <1>1, ConfigInvariant, BodyInvariant, PTL

\* A configuration that is accepted runs, and what is configured to authenticate is
\* what authenticates, however many settings are changed and whatever can be read.
THEOREM ConfigurationsAreHeld ==
  ASSUME NEW Texts, TextsAssumption(Texts), {"t", "f"} \subseteq Texts
  PROVE  Spec => []ConfigurationsHold
<1>1. ConfigTyped(Texts) => ConfigurationsHold
  <2> SUFFICES ASSUME ConfigTyped(Texts), work.of = "config"
               PROVE  /\ AcceptedRuns(work.config, work.readable)
                      /\ CredentialsAsConfigured(work.config.jobs[1].auth, work.readable)
    BY DEF ConfigurationsHold, Runs, Credentials
  <2>1. /\ DOMAIN work.config.jobs = {1, 2}
        /\ \A i \in DOMAIN work.config.jobs : work.config.jobs[i].auth \in Auths(Texts)
        /\ \A i \in DOMAIN work.config.remotes : work.config.remotes[i].auth \in Auths(Texts)
    BY DEF ConfigTyped, FileTyped, JobTyped
  <2>2. AcceptedRuns(work.config, work.readable)
    BY <2>1, AcceptedConfigurationRuns
  <2>3. CredentialsAsConfigured(work.config.jobs[1].auth, work.readable)
    BY <2>1, CredentialsCarried
  <2> QED
    BY <2>2, <2>3
<1> QED
  BY <1>1, ConfigInvariant, PTL

=============================================================================
