---------------------------- MODULE ConfigProofs ----------------------------
(***************************************************************************)
(* What Load makes of a host, for any files and any environment.           *)
(***************************************************************************)
EXTENDS Config, TLAPS

\* One file is read: two that both come first would be the same.
LEMMA OneFileRead ==
  ASSUME NEW h, IsHost(h), NEW i \in Read(h.files), NEW j \in Read(h.files)
  PROVE  i = j
<1>1. i \in Nat /\ j \in Nat
  BY DEF Read, IsHost
<1>2. ~(i < j) /\ ~(j < i)
  BY DEF Read
<1> QED BY <1>1, <1>2

\* The file that is read is a layer, unless it is broken.
LEMMA FileIsLayer ==
  ASSUME NEW h, IsHost(h), FirstFile(h.files) # Broken
  PROVE  IsLayer(FirstFile(h.files))
<1>1. CASE Read(h.files) = {}
  BY <1>1 DEF FirstFile, IsLayer
<1>2. CASE Read(h.files) # {}
  <2> DEFINE i == CHOOSE i \in Read(h.files) : TRUE
  <2>1. i \in Read(h.files) /\ FirstFile(h.files) = h.files[i]
    BY <1>2 DEF FirstFile
  <2>2. i \in DOMAIN h.files /\ h.files[i] # Absent
    BY <2>1 DEF Read
  <2> QED BY <2>1, <2>2 DEF IsHost
<1> QED BY <1>1, <1>2

\* No two variables of the environment name the same key.
LEMMA OneVariable ==
  ASSUME NEW h, IsHost(h), NEW v \in Recognised(h.env), NEW w \in Recognised(h.env),
         EnvTransform(v) = EnvTransform(w)
  PROVE  v = w
<1>1. v = <<v[1], v[2]>> /\ w = <<w[1], w[2]>>
  BY DEF Recognised, IsHost
<1>2. EnvSections[v[1]] = EnvSections[w[1]] /\ v[2] = w[2]
  BY DEF EnvTransform
<1>3. v[1] \in DOMAIN EnvSections /\ w[1] \in DOMAIN EnvSections
  BY DEF Recognised
<1>4. v[1] = w[1]
  BY <1>2, <1>3 DEF EnvSections
<1> QED BY <1>1, <1>2, <1>4

\* The environment as a layer: each recognised variable at its key.
LEMMA EnvIsLayer ==
  ASSUME NEW h, IsHost(h)
  PROVE  /\ IsLayer(EnvLayer(h.env))
         /\ DOMAIN EnvLayer(h.env) = {EnvTransform(v) : v \in Recognised(h.env)}
         /\ \A v \in Recognised(h.env) : EnvLayer(h.env)[EnvTransform(v)] = h.env[v]
<1> DEFINE Pick(k) == CHOOSE v \in Recognised(h.env) : EnvTransform(v) = k
<1>1. \A v \in Recognised(h.env) :
        Pick(EnvTransform(v)) \in Recognised(h.env)
        /\ EnvTransform(Pick(EnvTransform(v))) = EnvTransform(v)
  OBVIOUS
<1>2. \A v \in Recognised(h.env) : Pick(EnvTransform(v)) = v
  BY <1>1, OneVariable
<1>3. \A v \in Recognised(h.env) : h.env[v] \in Strings
  BY DEF Recognised, IsHost, IsLayer
<1>4. DOMAIN EnvLayer(h.env) = {EnvTransform(v) : v \in Recognised(h.env)}
  BY DEF EnvLayer
<1>5. \A v \in Recognised(h.env) : EnvLayer(h.env)[EnvTransform(v)] = h.env[v]
  BY <1>2 DEF EnvLayer
<1> QED BY <1>3, <1>4, <1>5 DEF IsLayer

\* Layers merge to a layer.
LEMMA MergeIsLayer ==
  ASSUME NEW lo, NEW hi, IsLayer(lo), IsLayer(hi)
  PROVE  IsLayer(Merge(lo, hi))
BY DEF IsLayer, Merge

LEMMA DefaultsIsLayer == IsLayer(Defaults)
<1> SUFFICES ASSUME NEW k \in DOMAIN Defaults PROVE Defaults[k] \in Strings
  BY DEF IsLayer
<1>1. k \in DurationKeys \cup {Driver, CookieSecure, BaseURL, InternalURL}
  BY DEF Defaults, Keys
<1>2. Defaults[k] \in {"memory", "false", "15s", "http://localhost:8080",
                        "http://internal-service:8081"}
  BY <1>1 DEF Defaults, Driver, CookieSecure, DurationKeys, WriteLimit, BaseURL, InternalURL
<1> QED BY <1>2, StringsOK

\* A Load that succeeds gives every key a string.
LEMMA LoadType ==
  ASSUME NEW h, IsHost(h)
  PROVE  LoadConfig(h) \in [Keys -> Strings] \cup {NoSettings}
<1> DEFINE merged == Merge(Merge(Defaults, FirstFile(h.files)), EnvLayer(h.env))
<1>1. CASE FirstFile(h.files) = Broken
  BY <1>1 DEF LoadConfig
<1>2. CASE FirstFile(h.files) # Broken
  <2>1. IsLayer(merged)
    BY <1>2, FileIsLayer, EnvIsLayer, MergeIsLayer, DefaultsIsLayer
  <2>2. Unmarshal(merged) \in [Keys -> Strings]
    <3> HIDE DEF merged
    <3> QED BY <2>1, StringsOK DEF Unmarshal, IsLayer
  <2> QED BY <2>2 DEF LoadConfig
<1> QED BY <1>1, <1>2

\* What a Load that succeeds has seen to.
LEMMA LoadOK ==
  ASSUME NEW h, IsHost(h), NEW s, s = LoadConfig(h), s # NoSettings
  PROVE  /\ FirstFile(h.files) # Broken
         /\ Validate(s)
         /\ LET merged == Merge(Merge(Defaults, FirstFile(h.files)), EnvLayer(h.env))
            IN s = Unmarshal(merged) /\ Decodes(merged)
BY DEF LoadConfig

\* Every duration and the bool have a default, so each one in force has been
\* decoded.
LEMMA DefaultsDecode ==
  ASSUME NEW h, IsHost(h), LoadConfig(h) # NoSettings,
         NEW k \in DurationKeys \cup {CookieSecure}
  PROVE  /\ k \in DurationKeys => LoadConfig(h)[k] \notin BadDurations
         /\ k = CookieSecure => LoadConfig(h)[k] \notin BadBools
<1> DEFINE low    == Merge(Defaults, FirstFile(h.files))
           merged == Merge(low, EnvLayer(h.env))
<1>1. LoadConfig(h) = Unmarshal(merged) /\ Decodes(merged)
  BY LoadOK
<1>2. k \in Keys /\ k \in DOMAIN Defaults
  BY DEF Keys, DurationKeys, Defaults, WriteLimit, CookieSecure, APIKey, ClientID, ClientSecret
<1>3. k \in DOMAIN low
  BY <1>2 DEF Merge
<1>4. k \in DOMAIN merged
  <2> HIDE DEF low
  <2> QED BY <1>3 DEF Merge
<1> HIDE DEF merged
<1> QED BY <1>1, <1>2, <1>4 DEF Unmarshal, Decodes

\* The precedence of the layers, key by key.
LEMMA LayerByLayer ==
  ASSUME NEW h, IsHost(h), LoadConfig(h) # NoSettings, NEW k \in Keys
  PROVE  /\ \A v \in Recognised(h.env) :
              EnvTransform(v) = k => LoadConfig(h)[k] = h.env[v]
         /\ (\A v \in Recognised(h.env) : EnvTransform(v) # k) =>
              /\ \A i \in Read(h.files) :
                   k \in DOMAIN h.files[i] => LoadConfig(h)[k] = h.files[i][k]
              /\ (\A i \in Read(h.files) : k \notin DOMAIN h.files[i]) =>
                   LoadConfig(h)[k] = IF k \in DOMAIN Defaults THEN Defaults[k] ELSE ""
<1> DEFINE file == FirstFile(h.files)
           env  == EnvLayer(h.env)
           low  == Merge(Defaults, file)
<1>1. LoadConfig(h) = Unmarshal(Merge(low, env))
  BY LoadOK
<1>2. LoadConfig(h)[k] = IF k \in DOMAIN env THEN env[k]
                         ELSE IF k \in DOMAIN low THEN low[k] ELSE ""
  <2> HIDE DEF low, env
  <2> QED BY <1>1 DEF Unmarshal, Merge
<1>3. /\ DOMAIN low = DOMAIN Defaults \cup DOMAIN file
      /\ \A x \in DOMAIN low : low[x] = IF x \in DOMAIN file THEN file[x] ELSE Defaults[x]
  <2> HIDE DEF file
  <2> QED BY DEF Merge
<1>4. \A v \in Recognised(h.env) : EnvTransform(v) = k => LoadConfig(h)[k] = h.env[v]
  <2> SUFFICES ASSUME NEW v \in Recognised(h.env), EnvTransform(v) = k
               PROVE  LoadConfig(h)[k] = h.env[v]
    OBVIOUS
  <2>1. k \in DOMAIN env /\ env[k] = h.env[v]
    BY EnvIsLayer
  <2> QED BY <1>2, <2>1
<1>5. ASSUME \A v \in Recognised(h.env) : EnvTransform(v) # k
      PROVE  LoadConfig(h)[k] = IF k \in DOMAIN file THEN file[k]
                                ELSE IF k \in DOMAIN Defaults THEN Defaults[k] ELSE ""
  <2>0. DOMAIN env = {EnvTransform(v) : v \in Recognised(h.env)}
    BY EnvIsLayer
  <2>1. k \notin DOMAIN env
    <3> HIDE DEF env
    <3> QED BY <1>5, <2>0
  <2> HIDE DEF file, env, low
  <2> QED BY <1>2, <1>3, <2>1
<1>6. \A i \in Read(h.files) : file = h.files[i]
  BY OneFileRead DEF FirstFile
<1>7. Read(h.files) = {} => DOMAIN file = {}
  BY DEF FirstFile
<1> HIDE DEF file
<1> QED BY <1>4, <1>5, <1>6, <1>7
=============================================================================
