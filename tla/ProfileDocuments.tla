--------------------------- MODULE ProfileDocuments ---------------------------
(***************************************************************************)
(* What a profile is and when it is valid (profile_storage.py, the schema, *)
(* kafka_connection, registry_connection), and the edits that need no      *)
(* credential (profile_documents.py).                                      *)
(*                                                                         *)
(* An operator that may refuse its input returns a set: empty when the     *)
(* code raises, else what it may return.  A text, a bundle or a certificate *)
(* is the number of the request that brought it; Empty is a text or a list *)
(* without contents; a value that is not there is None.  Values that no    *)
(* reader accepts (a bad PEM, a token URL with a query) are refused while  *)
(* the options are read and do not occur.  A Registry URL, which no option *)
(* of `edit` checks, is its scheme, or malformed.                          *)
(***************************************************************************)
EXTENDS Naturals, FiniteSets

CONSTANT None

Empty == 0

Either(value, other) == IF value # None THEN value ELSE other
\* Python's `value or other`.
Or(value, other) == IF value \in {None, Empty} THEN other ELSE value

-----------------------------------------------------------------------------
(* Requests: the options of one command, `on` gives each its value *)

Given(o, name)  == name \in DOMAIN o.on
Value(o, name)  == IF Given(o, name) THEN o.on[name] ELSE None
Unsets(o, name) == name \in o.unset
AnyGiven(o, names) == names \cap DOMAIN o.on # {}

-----------------------------------------------------------------------------
(* Documents *)

PasswordTypes == {"plain", "scram"}

Password     == "password"
PrivateKey   == "private-key"
KeyPassword  == "private-key-password"
Token        == "token"
ClientSecret == "client-secret"

\* References: where the secret of a field is in the vault.  A credential gets
\* a new identifier, here a number, every time it is stored.
Reference(service, field, made) == [service |-> service, field |-> field, made |-> made]
Of(refs, field) == {r \in refs : r.field = field}

Texts == {"username", "certificate", "tokenUrl", "clientId", "scopes", "ca", "routing"}

\* The `auth` object of either service; a Registry's client certificate is
\* stored beside its CA, logical cluster and identity pool are its routing.
NoAuth == [type |-> "none", username |-> None, certificate |-> None, tokenUrl |-> None,
           clientId |-> None, scopes |-> None, ca |-> None, routing |-> None, refs |-> {}]

HasTls(registry) == registry.ca # None \/ registry.auth.certificate # None

\* What the options and the schema enumerate, and what a document is made of.
KafkaTypes    == {"none", "plain", "scram", "mtls", "oauth"}
RegistryTypes == {"none", "basic", "token", "mtls", "oauth"}
Transports    == {"plaintext", "tls"}
Providers     == {"confluent", "apicurio"}
Urls          == {"http", "https", "malformed"}

Values       == Nat \cup {None}
SecretFields == {Password, PrivateKey, KeyPassword, Token, ClientSecret}
References   == [service : {"kafka", "registry"}, field : SecretFields, made : Nat]

Auths(types) ==
  [type : types, username : Values, certificate : Values, tokenUrl : Values, clientId : Values,
   scopes : Values, ca : Values, routing : Values, refs : SUBSET References]
KafkaConnections ==
  [transport : Transports, tls : BOOLEAN, ca : Values, auth : Auths(KafkaTypes)]
Registries ==
  [provider : Providers, url : Urls, ca : Values, auth : Auths(RegistryTypes)]
Documents ==
  [description : Values, kafka : KafkaConnections, registry : Registries \cup {None}]

\* Nothing else is like a value that is not there.
ASSUME NoneAssumption ==
  /\ None \notin Nat \cup Registries \cup Documents
  /\ None \notin KafkaTypes \cup RegistryTypes \cup Transports \cup Providers \cup Urls

AuthOf(registry) == IF registry = None THEN NoAuth ELSE registry.auth
RefsOf(d) == d.kafka.auth.refs \cup AuthOf(d.registry).refs

-----------------------------------------------------------------------------
(* Validity *)

\* connection_rule_violation
RuleViolation(transport, kafkaAuth, provider, url, auth, tls) ==
  \/ kafkaAuth \notin {None, "none"} /\ transport # "tls"
  \/ url # None /\ provider = "apicurio" /\ auth = "token"
  \/ url = "http" /\ (auth # "none" \/ tls)

\* _combination_violation
DocumentViolation(d) ==
  LET r == d.registry IN
  IF r = None
  THEN RuleViolation(d.kafka.transport, d.kafka.auth.type, None, None, "none", FALSE)
  ELSE RuleViolation(d.kafka.transport, d.kafka.auth.type, r.provider, r.url,
                     r.auth.type, HasTls(r))

\* One alternative of an `auth` schema: its members, required or not, and no other.
Shape(auth, required, optional, secrets, optionalSecrets) ==
  /\ \A t \in required : auth[t] # None
  /\ \A t \in required \cup optional : auth[t] = Empty => t = "scopes"
  /\ \A t \in Texts \ (required \cup optional) : auth[t] = None
  /\ LET fields == {r.field : r \in auth.refs} IN
     /\ secrets \subseteq fields /\ fields \subseteq secrets \cup optionalSecrets
     /\ Cardinality(fields) = Cardinality(auth.refs)

OAuthTexts == {"tokenUrl", "clientId", "scopes"}

KafkaSchema(k) ==
  /\ k.transport = "plaintext" => ~k.tls
  /\ k.auth.type # "none" => k.transport = "tls"
  /\ \/ k.auth.type = "none" /\ Shape(k.auth, {}, {}, {}, {})
     \/ k.auth.type \in PasswordTypes /\ Shape(k.auth, {"username"}, {}, {Password}, {})
     \/ k.auth.type = "mtls" /\ Shape(k.auth, {"certificate"}, {}, {PrivateKey}, {KeyPassword})
     \/ k.auth.type = "oauth" /\ Shape(k.auth, OAuthTexts, {"ca"}, {ClientSecret}, {})

RegistrySchema(r) ==
  /\ r.url # "malformed"
  /\ r.url = "http" => r.auth.type = "none" /\ ~HasTls(r)
  /\ r.provider = "apicurio" => r.auth.type # "token"
  /\ \/ r.auth.type = "none" /\ Shape(r.auth, {}, {}, {}, {})
     \/ r.auth.type = "basic" /\ Shape(r.auth, {"username"}, {}, {Password}, {})
     \/ r.auth.type = "token" /\ Shape(r.auth, {}, {}, {Token}, {})
     \/ r.auth.type = "mtls" /\ Shape(r.auth, {"certificate"}, {}, {PrivateKey}, {KeyPassword})
     \/ r.auth.type = "oauth"
        /\ Shape(r.auth, OAuthTexts, {"ca", "routing"}, {ClientSecret}, {})

FitsSchema(d) == KafkaSchema(d.kafka) /\ (d.registry = None \/ RegistrySchema(d.registry))

\* registry_connection asks for more than the schema: routing is Confluent's.
Connects(r) ==
  \/ r = None
  \/ /\ RegistrySchema(r)
     /\ r.auth.routing # None => r.provider = "confluent"

-----------------------------------------------------------------------------
(* Edits without credentials: apply_profile_edits *)

\* _apply_kafka_transport_edits
TransportEdits(kafka, o) ==
  LET transport == Either(Value(o, "transport"), kafka.transport)
      k == IF transport = "plaintext" /\ Given(o, "transport")
           THEN [kafka EXCEPT !.transport = transport, !.tls = FALSE, !.ca = None]
           ELSE [kafka EXCEPT !.transport = transport, !.tls = @ \/ Given(o, "transport")] IN
  IF ~Given(o, "ca_file") /\ ~Unsets(o, "kafka.tls.ca") THEN {k}
  ELSE IF k.transport # "tls" THEN {}
  ELSE {[k EXCEPT !.tls = Given(o, "ca_file"), !.ca = Value(o, "ca_file")]}

\* Mutant of RegistryEdits: a change of provider starts without authentication.
StartOver(registry, o) ==
  LET url == Value(o, "registry_url")
      provider == Value(o, "registry_provider") IN
  IF Unsets(o, "registry") THEN {None}
  ELSE IF provider = None /\ url = None THEN {registry}
  ELSE IF registry = None /\ url = None THEN {}
  ELSE IF registry # None /\ provider \notin {None, registry.provider} /\ url = None THEN {}
  ELSE {[provider |-> Either(provider, IF registry = None THEN "confluent" ELSE registry.provider),
         url |-> Either(url, IF registry = None THEN None ELSE registry.url),
         ca |-> None, auth |-> NoAuth]}

\* _apply_registry_edits: trust and authentication stay with the connection.
RegistryEdits(registry, o) ==
  LET url == Value(o, "registry_url")
      provider == Value(o, "registry_provider") IN
  IF Unsets(o, "registry") THEN {None}
  ELSE IF provider = None /\ url = None THEN {registry}
  ELSE IF url = None /\ (registry = None \/ provider # registry.provider) THEN {}
  ELSE IF registry = None
  THEN {[provider |-> Either(provider, "confluent"), url |-> url,
         ca |-> None, auth |-> NoAuth]}
  ELSE {[registry EXCEPT !.provider = Either(provider, @), !.url = Either(url, @)]}

DescriptionEdit(d, o) ==
  IF Unsets(o, "description") THEN None ELSE Either(Value(o, "description"), d.description)

\* apply_profile_edits
Edited(d, o) ==
  {[description |-> DescriptionEdit(d, o), kafka |-> k, registry |-> r] :
     k \in TransportEdits(d.kafka, o), r \in RegistryEdits(d.registry, o)}

\* new_profile, before its authentication is filled in.  `resolved_transport`
\* is TLS when an option of the Kafka connection implies it.
NewTransport(o) ==
  Either(Value(o, "transport"),
         IF \/ AnyGiven(o, {"ca_file", "client_certificate_file", "client_key_file"})
            \/ Either(Value(o, "auth_type"), "none") # "none"
         THEN "tls" ELSE "plaintext")

NewDocuments(o) ==
  IF \/ Given(o, "ca_file") /\ NewTransport(o) # "tls"
     \/ Given(o, "registry_provider") /\ ~Given(o, "registry_url")
  THEN {}
  ELSE {[description |-> Value(o, "description"),
         kafka |-> [transport |-> NewTransport(o), tls |-> Given(o, "ca_file"),
                    ca |-> Value(o, "ca_file"), auth |-> NoAuth],
         registry |-> IF ~Given(o, "registry_url") THEN None
                      ELSE [provider |-> Either(Value(o, "registry_provider"), "confluent"),
                            url |-> Value(o, "registry_url"), ca |-> None, auth |-> NoAuth]]}

\* validate_edit_request
RequestConflicts(o, kafkaInput, registryInput) ==
  \/ /\ ~AnyGiven(o, {"description", "transport", "ca_file",
                      "registry_provider", "registry_url"})
     /\ o.unset \cap {"description", "kafka.tls.ca", "registry"} = {}
     /\ kafkaInput = None /\ registryInput = None
  \/ Given(o, "description") /\ Unsets(o, "description")
  \/ /\ Unsets(o, "registry")
     /\ AnyGiven(o, {"registry_provider", "registry_url"}) \/ registryInput # None
  \/ Value(o, "transport") = "plaintext"
     /\ (Given(o, "ca_file") \/ Unsets(o, "kafka.tls.ca"))
  \/ Given(o, "ca_file") /\ Unsets(o, "kafka.tls.ca")
===============================================================================
