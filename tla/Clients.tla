------------------------------- MODULE Clients --------------------------------
(***************************************************************************)
(* How one client receives a profile (adapters.py, adapter_policy.py,      *)
(* adapter_shims.py), and the files a session plans and writes for it      *)
(* (session.py, with the renderings of kafka.py and registry.py).          *)
(*                                                                         *)
(* A connection is its shape: which credentials and which CA bundles there *)
(* are.  A release is how far it goes: 0 is unsupported, missing or        *)
(* unknown, 1 the floor, 2 reads PEM trust, 3 has all that is asked for.   *)
(* Arguments are what the adapters tell apart: whether the argument policy *)
(* passes them, and how they ask for a Registry deserializer.              *)
(***************************************************************************)
EXTENDS Naturals

GoClients   == {"kaf", "kcl", "kafui"}
JavaClients == {"java", "console"}   \* console: a Schema Registry console
Clients     == GoClients \cup JavaClients \cup {"kcat", "kaskade"}
Releases    == 0..3

KafkaShapes ==
  {k \in [tls : BOOLEAN, auth : {"none", "password", "mtls", "oauth"},
          ca : BOOLEAN, locked : BOOLEAN, tokenCa : BOOLEAN] :
     /\ k.tls \/ (k.auth = "none" /\ ~k.ca)
     /\ k.locked => k.auth = "mtls"
     /\ k.tokenCa => k.auth = "oauth"}

NoRegistry == [provider |-> "none", auth |-> "none", ca |-> FALSE, locked |-> FALSE,
               tokenCa |-> "none", cluster |-> FALSE]

\* tokenCa: the CA of the token endpoint, the same as the Registry's or another.
RegistryShapes ==
  {NoRegistry} \cup
  {r \in [provider : {"confluent", "apicurio"},
          auth : {"none", "basic", "token", "mtls", "oauth"},
          ca : BOOLEAN, locked : BOOLEAN, tokenCa : {"none", "same", "other"},
          cluster : BOOLEAN] :
     /\ r.auth = "token" => r.provider = "confluent"
     /\ r.locked => r.auth = "mtls"
     /\ r.tokenCa # "none" => r.auth = "oauth"
     /\ r.tokenCa = "same" => r.ca
     /\ r.cluster => r.auth = "oauth" /\ r.provider = "confluent"}

\* "decode": a spelling of `-k registry` that click accepts; "short=":
\* `-k=registry`; "elsewhere": the word as another option's value; "other": no
\* admin or consumer command.
Uses(c) ==
  CASE c = "kaskade" -> {"plain", "decode", "short=", "elsewhere", "other"}
    [] c = "kcat"    -> {"plain", "decode"}
    [] OTHER         -> {"plain"}

-----------------------------------------------------------------------------
(* The capability decision *)

\* The mechanisms a client's adapter names.
Speaks(c, k) == c \in GoClients => k.auth # "oauth"

\* Mutant of TakesRegistry: the CA of the Registry is not looked at.
TakesAnyTrust(c, r) ==
  r.provider # "none" =>
    /\ c \in GoClients => r.provider = "confluent"
    /\ c \in {"kaf", "kafui"} => r.auth \in {"none", "basic"}
    /\ c = "kcl" => r.auth # "oauth"

\* registry_check, for the clients that read the Registry on every run.
TakesRegistry(c, r) ==
  r.provider # "none" =>
    /\ c \in GoClients => r.provider = "confluent"
    /\ c \in {"kaf", "kafui"} => r.auth \in {"none", "basic"} /\ ~r.ca
    /\ c = "kcl" => r.auth # "oauth"

\* The floor, and the checks of the profile's needs against the same release.
Supports(c, k, release) ==
  /\ release >= 1
  /\ (c \in JavaClients /\ (k.ca \/ k.auth = "mtls")) => release >= 2
  /\ (c \in JavaClients /\ k.auth = "oauth") => release = 3
  /\ (c = "kcat" /\ k.tokenCa) => release = 3

Capable(c, k, r, release) ==
  Speaks(c, k) /\ TakesRegistry(c, r) /\ Supports(c, k, release)

\* What a Registry deserializer or console asks of the profile's Registry.
SharedTrust(r) == r.tokenCa \in {"none", "same"}

RegistryFits(c, r) ==
  CASE c = "kcat"    -> r.provider = "confluent" /\ r.auth = "none"
    [] c = "console" ->
         /\ r.provider = "confluent"
         /\ r.auth = "oauth" => r.cluster /\ SharedTrust(r)
    [] c = "kaskade" ->
         /\ r.provider # "none" /\ r.auth # "token"
         /\ r.auth = "oauth" =>
              IF r.provider = "confluent" THEN r.cluster ELSE SharedTrust(r)

-----------------------------------------------------------------------------
(* The files *)

Keys == {"kafka.key", "registry.key"}
Copies == {"kafka-unencrypted.key", "registry-unencrypted.key"}

\* The decrypted copy for the Go clients, or the key itself.
Copy(key, locked) ==
  IF ~locked THEN key
  ELSE IF key = "kafka.key" THEN "kafka-unencrypted.key" ELSE "registry-unencrypted.key"

\* _KafkaMaterial and _RegistryMaterial: the paths that are not None.
KafkaTrust(k)     == IF k.ca THEN {"kafka.ca"} ELSE {}
KafkaTokenTrust(k) == IF k.tokenCa THEN {"kafka-token.ca"} ELSE {}
KafkaIdentity(k, key) == IF k.auth = "mtls" THEN {"kafka.crt", key} ELSE {}
RegistryTrust(r)  == IF r.ca THEN {"registry.ca"} ELSE {}
RegistryTokenTrust(r) ==
  IF r.provider = "confluent" /\ r.tokenCa # "none" THEN {"registry-token.ca"} ELSE {}
RegistryIdentity(r, key) == IF r.auth = "mtls" THEN {"registry.crt", key} ELSE {}

KafkaCopy(k)    == Copy("kafka.key", k.locked)
RegistryCopy(r) == Copy("registry.key", r.locked)

Material(k, r) ==
  KafkaTrust(k) \cup KafkaTokenTrust(k) \cup KafkaIdentity(k, "kafka.key")
  \cup KafkaIdentity(k, KafkaCopy(k)) \cup RegistryTrust(r) \cup RegistryTokenTrust(r)
  \cup RegistryIdentity(r, "registry.key") \cup RegistryIdentity(r, RegistryCopy(r))

\* Which configurations the profile can be mapped to.
KafMapped(k, r) ==
  /\ k.auth # "oauth"
  /\ r.provider # "none" =>
       r.provider = "confluent" /\ ~r.ca /\ r.auth \in {"none", "basic"}
KclMapped(k, r) ==
  k.auth # "oauth" /\ (r.provider # "none" => r.provider = "confluent" /\ r.auth # "oauth")

Configurations(k, r) ==
  {"librdkafka.properties", "java.properties", "kaskade.ini"}
  \cup (IF r.provider # "none" THEN {"kaskade-registry.ini", "registry.properties"} ELSE {})
  \cup (IF r.provider = "confluent" THEN {"console.properties"} ELSE {})
  \cup (IF KafMapped(k, r) THEN {"kaf.yaml", "kafui-home"} ELSE {})
  \cup (IF KclMapped(k, r) THEN {"kcl.toml"} ELSE {})

Planned(k, r) == Material(k, r) \cup Configurations(k, r)

\* Mutant of Required: kcl's configuration forgets the Registry's identity.
RequiredWithoutRegistry(f, k, r) ==
  LET rdkafka == KafkaTrust(k) \cup KafkaIdentity(k, "kafka.key") \cup KafkaTokenTrust(k)
      registry == RegistryTrust(r) \cup RegistryIdentity(r, "registry.key") IN
  CASE f \in {"librdkafka.properties", "kaskade.ini"} -> rdkafka
    [] f = "kaskade-registry.ini" -> rdkafka \cup registry
    [] f = "registry.properties"  -> registry
    [] f = "java.properties"    -> KafkaTrust(k) \cup KafkaTokenTrust(k)
    [] f = "console.properties" -> KafkaTrust(k) \cup KafkaTokenTrust(k) \cup RegistryTrust(r)
    [] f \in {"kaf.yaml", "kcl.toml"} -> KafkaTrust(k) \cup KafkaIdentity(k, KafkaCopy(k))
    [] OTHER -> {}

\* The `requires` of each planned file.
Required(f, k, r) ==
  LET rdkafka == KafkaTrust(k) \cup KafkaIdentity(k, "kafka.key") \cup KafkaTokenTrust(k)
      registry == RegistryTrust(r) \cup RegistryIdentity(r, "registry.key") IN
  CASE f \in {"librdkafka.properties", "kaskade.ini"} -> rdkafka
    [] f = "kaskade-registry.ini" -> rdkafka \cup registry
    [] f = "registry.properties"  -> registry
    [] f = "java.properties"    -> KafkaTrust(k) \cup KafkaTokenTrust(k)
    [] f = "console.properties" -> KafkaTrust(k) \cup KafkaTokenTrust(k) \cup RegistryTrust(r)
    [] f = "kaf.yaml" -> KafkaTrust(k) \cup KafkaIdentity(k, KafkaCopy(k))
    [] f = "kcl.toml" ->
         KafkaTrust(k) \cup KafkaIdentity(k, KafkaCopy(k))
         \cup RegistryTrust(r) \cup RegistryIdentity(r, RegistryCopy(r))
    [] OTHER -> {}

\* _write: the selected files with what they require; what is required
\* requires nothing itself.
WithRequired(selected, k, r) ==
  selected \cup UNION {Required(f, k, r) : f \in selected}

\* write_all: everything but copies that no written file requires.
Everything(k, r) == WithRequired(Planned(k, r) \ Copies, k, r)

-----------------------------------------------------------------------------
(* What the rendered files say *)

\* The Registry section of Kaskade and of the librdkafka file; a rendering
\* that fails is left empty.
RegistryRenders(r) == r.provider = "apicurio" => ~r.locked /\ SharedTrust(r)
ConsoleRenders(r)  == r.provider = "confluent" /\ SharedTrust(r)

\* The files the contents of f name: kafka.py and registry.py.
Tls(k, files) == IF k.tls THEN files ELSE {}
NamedFor(k, key) ==
  Tls(k, (IF k.ca THEN {"kafka.ca"} ELSE {})
         \cup (IF k.auth = "mtls" THEN {"kafka.crt", key} ELSE {}))
NamedForToken(k) ==
  Tls(k, IF k.auth = "oauth" /\ k.tokenCa THEN {"kafka-token.ca"} ELSE {})
RegistryNamed(r, key) ==
  (IF r.ca THEN {"registry.ca"} ELSE {})
  \cup (IF r.auth = "mtls" THEN {"registry.crt", key} ELSE {})

NamedIn(f, k, r) ==
  LET rdkafka == NamedFor(k, "kafka.key") \cup NamedForToken(k)
      java == Tls(k, IF k.ca THEN {"kafka.ca"} ELSE {}) \cup NamedForToken(k)
      section == IF RegistryRenders(r) THEN RegistryNamed(r, "registry.key") ELSE {} IN
  CASE f \in {"librdkafka.properties", "kaskade.ini"} -> rdkafka
    [] f = "kaskade-registry.ini" -> rdkafka \cup section
    [] f = "registry.properties"  -> section
    [] f = "java.properties"    -> java
    [] f = "console.properties" ->
         java \cup (IF ConsoleRenders(r) /\ r.ca THEN {"registry.ca"} ELSE {})
    [] f = "kaf.yaml" -> NamedFor(k, KafkaCopy(k))
    [] f = "kcl.toml" -> NamedFor(k, KafkaCopy(k)) \cup RegistryNamed(r, RegistryCopy(r))
    [] OTHER -> {}

-----------------------------------------------------------------------------
(* Direct commands and shims *)

\* Does the command read through a Registry deserializer?  _prepare_command
\* and the shim read the arguments each in its own way.
ReadsRegistry(c, use) == c = "console" \/ use = "decode" \/ use = "short="
ShimReadsRegistry(c, use) == c = "console" \/ use = "decode"

\* A third reading, for the trust of Kaskade's token client.
TokenTrustDetected(use) == use \in {"decode", "short=", "elsewhere"}

Configuration(c, registry) ==
  CASE c = "kcat"    -> "librdkafka.properties"
    [] c = "kaskade" -> IF registry THEN "kaskade-registry.ini" ELSE "kaskade.ini"
    [] c = "java"    -> "java.properties"
    [] c = "console" -> "console.properties"
    [] c = "kcl"     -> "kcl.toml"
    [] c \in {"kaf", "kafui"} -> "kaf.yaml"

\* The adapters that look for their configuration before they go on.
NeedsItsFile(c) == c \in GoClients \cup {"console"}
HasItsFile(c, k, r) == NeedsItsFile(c) => Configuration(c, TRUE) \in Planned(k, r)

\* Kaskade is adapted only with the command admin or consumer.
Adapted(c, use) == ~(c = "kaskade" /\ use = "other")

\* _prepare_command: the first refusal, or "run".
Direct(c, k, r, release, fit, use) ==
  IF ~Capable(c, k, r, release) THEN "capability"
  ELSE IF ~Adapted(c, use) THEN "run"
  ELSE IF ~fit THEN "arguments"
  ELSE IF ReadsRegistry(c, use) /\ ~RegistryFits(c, r) THEN "registry"
  ELSE IF ~HasItsFile(c, k, r) THEN "configuration"
  ELSE "run"

\* Mutant of ShimIsGated: the Java shims embed no decision either.
ShimIsRarelyGated(c, use) ==
  CASE c = "kcat" \/ c \in JavaClients -> FALSE
    [] c = "kaskade" -> ShimReadsRegistry(c, use)
    [] OTHER         -> TRUE

\* The shims: kcat's embeds no capability decision, Kaskade's applies it only
\* to a Registry deserializer.
ShimIsGated(c, use) ==
  CASE c = "kcat"    -> FALSE
    [] c = "kaskade" -> ShimReadsRegistry(c, use)
    [] OTHER         -> TRUE

ShimRuns(c, k, r, release, fit, use) ==
  /\ ShimIsGated(c, use) => Capable(c, k, r, release)
  /\ Adapted(c, use) => fit
  /\ ShimReadsRegistry(c, use) => RegistryFits(c, r)
  /\ c \in GoClients => HasItsFile(c, k, r)

\* The planned files a direct command's arguments and environment name.
Told(c, k, r, use) ==
  IF ~Adapted(c, use) THEN {}
  ELSE {Configuration(c, ReadsRegistry(c, use))}
       \cup (IF c = "kafui" THEN {"kafui-home"} ELSE {})
       \cup (IF c = "kaskade" /\ r.auth = "oauth" /\ TokenTrustDetected(use)
             THEN RegistryTokenTrust(r) ELSE {})
===============================================================================
