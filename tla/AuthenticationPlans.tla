------------------------- MODULE AuthenticationPlans -------------------------
(***************************************************************************)
(* From options to credentials: the inputs that `add` and `edit` build and *)
(* prompt for (cli_inputs.py), the plan for each service (profile_auth.py) *)
(* and the `auth` object that goes into the document.                      *)
(*                                                                         *)
(* An input holds texts as they are and, for a secret, only whether one    *)
(* was typed or read.  A key file is "plain" or "encrypted"; an encrypted  *)
(* one brings a key password.                                              *)
(***************************************************************************)
EXTENDS ProfileDocuments

NoInput == [type |-> "none", username |-> None, certificate |-> None, tokenUrl |-> None,
            clientId |-> None, scopes |-> None, ca |-> None, routing |-> None,
            tlsCa |-> None, defaultTrust |-> FALSE, secrets |-> {}]

Inputs(types) ==
  [type : types, username : Values, certificate : Values, tokenUrl : Values, clientId : Values,
   scopes : Values, ca : Values, routing : Values, tlsCa : Values, defaultTrust : BOOLEAN,
   secrets : SUBSET SecretFields]

ASSUME InputAssumption == None \notin Inputs(KafkaTypes \cup RegistryTypes)

KafkaOAuthOptions == {"oauth_token_url", "oauth_client_id", "oauth_ca_file"}
KafkaIdentity     == {"client_certificate_file", "client_key_file"}
RegistryIdentity  == {"registry_client_certificate_file", "registry_client_key_file"}

Replaces(o, service) == {r[2] : r \in {q \in o.replace : q[1] = service}}

\* The secrets that a key file brings.
KeySecrets(file) == {PrivateKey} \cup IF file = "encrypted" THEN {KeyPassword} ELSE {}

-----------------------------------------------------------------------------
(* Kafka inputs: kafka_auth_input *)

PasswordInputs(type, o, required, replace) ==
  IF replace \subseteq {Password} /\ ~AnyGiven(o, KafkaIdentity)
  THEN {[NoInput EXCEPT !.type = type, !.username = Value(o, "username"),
           !.secrets = IF required \/ replace # {} THEN {Password} ELSE {}]}
  ELSE {}

\* Files that were not named are asked for when the key is to be replaced.
MtlsInputs(o, replace) ==
  LET named(file) == Given(o, file) \/ PrivateKey \in replace
      keys == IF Given(o, "client_key_file") THEN {Value(o, "client_key_file")}
              ELSE {"plain", "encrypted"} IN
  IF \/ Password \in replace
     \/ KeyPassword \in replace /\ PrivateKey \notin replace
     \/ named("client_certificate_file") # named("client_key_file")
  THEN {}
  ELSE IF ~named("client_key_file") THEN {[NoInput EXCEPT !.type = "mtls"]}
  ELSE {[NoInput EXCEPT !.type = "mtls", !.secrets = KeySecrets(key),
           !.certificate = Either(Value(o, "client_certificate_file"), o.by)] : key \in keys}

OAuthInputs(o, scopes, required, replace) ==
  IF ~AnyGiven(o, KafkaIdentity \cup {"username"}) /\ replace \subseteq {ClientSecret}
  THEN {[NoInput EXCEPT !.type = "oauth", !.tokenUrl = Value(o, "oauth_token_url"),
           !.clientId = Value(o, "oauth_client_id"), !.scopes = scopes,
           !.ca = Value(o, "oauth_ca_file"),
           !.defaultTrust = Unsets(o, "kafka.auth.oauth.ca"),
           !.secrets = IF required \/ replace # {} THEN {ClientSecret} ELSE {}]}
  ELSE {}

KafkaInputs(type, o, scopes, passwordRequired, secretRequired) ==
  LET replace == Replaces(o, "kafka") IN
  IF /\ type # "oauth"
     /\ scopes # None \/ AnyGiven(o, KafkaOAuthOptions) \/ Unsets(o, "kafka.auth.oauth.ca")
  THEN {}
  ELSE IF type \in PasswordTypes THEN PasswordInputs(type, o, passwordRequired, replace)
  ELSE IF type = "mtls" THEN MtlsInputs(o, replace)
  ELSE IF type = "oauth" THEN OAuthInputs(o, scopes, secretRequired, replace)
  ELSE IF replace # {} \/ AnyGiven(o, KafkaIdentity \cup {"username"}) THEN {}
  ELSE {NoInput}

\* The Kafka part of add_authentication; scopes are looked at for OAuth only.
KafkaAddInputs(o) ==
  LET type == Either(Value(o, "auth_type"), "none") IN
  KafkaInputs(type, o,
              IF type = "oauth" THEN Either(Value(o, "oauth_scope"), Empty) ELSE None,
              type \in PasswordTypes, type = "oauth")

KafkaAuthRequested(o) ==
  \/ AnyGiven(o, {"auth_type", "username", "oauth_scope"} \cup KafkaIdentity \cup KafkaOAuthOptions)
  \/ Unsets(o, "kafka.auth.oauth.scopes") \/ Unsets(o, "kafka.auth.oauth.ca")
  \/ Replaces(o, "kafka") # {}

\* edit_kafka_authentication
KafkaEditInputs(o, current) ==
  LET type == Either(Value(o, "auth_type"), current.type) IN
  IF ~KafkaAuthRequested(o) THEN {None}
  ELSE KafkaInputs(type, o,
                   IF Unsets(o, "kafka.auth.oauth.scopes") THEN Empty ELSE Value(o, "oauth_scope"),
                   type \in PasswordTypes /\ current.type \notin PasswordTypes,
                   type = "oauth" /\ current.type # "oauth")

-----------------------------------------------------------------------------
(* Registry inputs: registry_auth_input and edit_registry_authentication *)

RegistryOAuthOptions ==
  {"registry_oauth_token_url", "registry_oauth_client_id", "registry_oauth_scope",
   "registry_oauth_ca_file", "registry_oauth_routing"}
RegistryOAuthUnsets ==
  {"registry.auth.oauth.scopes", "registry.auth.oauth.ca", "registry.auth.oauth.routing"}
RegistryOptions ==
  {"registry_auth", "registry_username", "registry_ca_file"}
    \cup RegistryIdentity \cup RegistryOAuthOptions

SecretField(type) ==
  CASE type = "basic" -> Password
    [] type = "token" -> Token
    [] type = "mtls" -> PrivateKey
    [] type = "oauth" -> ClientSecret

\* Which secrets --replace-secret may name, and those that are prompted for.
Replaceable(type) ==
  IF type = "none" THEN {}
  ELSE IF type = "mtls" THEN {PrivateKey, KeyPassword} ELSE {SecretField(type)}
Prompted(type, required, replace) ==
  IF type # "mtls" /\ (required \/ replace # {}) THEN {SecretField(type)} ELSE {}

\* _RegistryValues: `v` holds the values, merged from options and document.
HasOAuth(v) ==
  (v.tokenUrl # None \/ v.clientId # None \/ v.ca # None \/ v.routing # None)
    \/ v.scopes # Empty
RegistryRequested(v, replace) ==
  \/ v.type # "none" \/ v.username # None \/ v.tlsCa # None
  \/ v.certificate # None \/ v.secrets # {} \/ replace # {}

\* registry_auth_input
RegistryInputs(v, url, required, replace) ==
  IF \/ v.type # "oauth" /\ HasOAuth(v)
     \/ v.type # "mtls" /\ (v.certificate # None \/ v.secrets # {})
  THEN {}
  ELSE IF ~RegistryRequested(v, replace) THEN {None}
  ELSE IF \/ url = None
          \/ ~(replace \subseteq Replaceable(v.type))
          \/ v.type # "basic" /\ v.username # None
          \/ v.type = "basic" /\ v.username \in {None, Empty}
          \/ v.type = "mtls" /\ replace # {} /\ v.secrets = {}
          \/ v.type = "oauth" /\ (v.tokenUrl \in {None, Empty} \/ v.clientId \in {None, Empty})
  THEN {}
  ELSE IF v.type = "none" THEN {[v EXCEPT !.scopes = None]}
  ELSE {[v EXCEPT !.secrets = @ \cup Prompted(v.type, required, replace)]}

\* _registry_identity: the files come together or not at all.
Identified(o) == Given(o, "registry_client_certificate_file") = Given(o, "registry_client_key_file")
FileSecrets(o) ==
  IF Given(o, "registry_client_key_file") THEN KeySecrets(Value(o, "registry_client_key_file"))
  ELSE {}

\* The Registry part of add_authentication.
RegistryAddInputs(o) ==
  IF ~Identified(o) THEN {}
  ELSE RegistryInputs(
         [NoInput EXCEPT !.type = Either(Value(o, "registry_auth"), "none"),
            !.username = Value(o, "registry_username"), !.tlsCa = Value(o, "registry_ca_file"),
            !.certificate = Value(o, "registry_client_certificate_file"),
            !.tokenUrl = Value(o, "registry_oauth_token_url"),
            !.clientId = Value(o, "registry_oauth_client_id"),
            !.scopes = Either(Value(o, "registry_oauth_scope"), Empty),
            !.ca = Value(o, "registry_oauth_ca_file"),
            !.routing = Value(o, "registry_oauth_routing"), !.secrets = FileSecrets(o)],
         Value(o, "registry_url"), TRUE, {})

\* Mutant of Replaced: what is stored wins.
Sticky(value, reset, stored) == IF reset THEN None ELSE Either(stored, value)

Replaced(value, reset, stored) == IF reset THEN None ELSE Either(value, stored)

\* Stored fields carry over as long as the type stays the same.
RegistryEditValues(o, type, registry) ==
  LET current == AuthOf(registry)
      stored  == IF type = current.type THEN current ELSE NoAuth IN
  [NoInput EXCEPT !.type = type,
     !.username = Or(Value(o, "registry_username"), stored.username),
     !.tlsCa = Replaced(Value(o, "registry_ca_file"), Unsets(o, "registry.tls.ca"),
                        IF registry = None THEN None ELSE registry.ca),
     !.certificate = Either(Value(o, "registry_client_certificate_file"), stored.certificate),
     !.tokenUrl = Or(Value(o, "registry_oauth_token_url"), stored.tokenUrl),
     !.clientId = Or(Value(o, "registry_oauth_client_id"), stored.clientId),
     !.scopes = IF Unsets(o, "registry.auth.oauth.scopes") THEN Empty
                ELSE Either(Value(o, "registry_oauth_scope"), Either(stored.scopes, Empty)),
     !.ca = Replaced(Value(o, "registry_oauth_ca_file"),
                     Unsets(o, "registry.auth.oauth.ca"), stored.ca),
     !.routing = IF Unsets(o, "registry.auth.oauth.routing") THEN None
                 ELSE Or(Value(o, "registry_oauth_routing"), stored.routing),
     !.secrets = FileSecrets(o)]

RegistryAuthRequested(o) ==
  \/ AnyGiven(o, RegistryOptions) \/ o.unset \cap ({"registry.tls.ca"} \cup RegistryOAuthUnsets) # {}
  \/ Replaces(o, "registry") # {}

RegistryEditInputs(o, registry) ==
  LET current == AuthOf(registry)
      type    == Either(Value(o, "registry_auth"), current.type)
      url     == Either(Value(o, "registry_url"), IF registry = None THEN None ELSE registry.url)
      inputs  == RegistryInputs(RegistryEditValues(o, type, registry), url,
                                type # current.type, Replaces(o, "registry")) IN
  IF ~RegistryAuthRequested(o) THEN {None}
  ELSE IF \/ ~Identified(o)
          \/ /\ type # "oauth"
             /\ AnyGiven(o, RegistryOAuthOptions) \/ o.unset \cap RegistryOAuthUnsets # {}
  THEN {}
  ELSE IF inputs = {None} /\ Value(o, "registry_auth") = "none" THEN {NoInput}
  ELSE inputs

-----------------------------------------------------------------------------
(* Plans: what is kept, what is stored anew, what is deleted *)

Plan(auth, refs, retained, staged) ==
  [auth |-> auth, retained |-> retained, staged |-> staged,
   retired |-> {r \in refs : r \notin retained /\ r.field \notin staged}]

\* One secret that the type needs: a new one, or the one there is.
OneSecret(auth, refs, field, given) ==
  IF given THEN {Plan(auth, refs, {}, {field})}
  ELSE {Plan(auth, refs, Of(refs, field), {}) : r \in Of(refs, field)}

KafkaPasswordPlans(current, in) ==
  LET username == Either(in.username, IF current.type \in PasswordTypes
                                      THEN current.username ELSE None) IN
  IF username \in {None, Empty} THEN {}
  ELSE OneSecret([NoAuth EXCEPT !.type = in.type, !.username = username],
                 current.refs, Password, Password \in in.secrets)

KafkaMtlsPlans(current, in) ==
  IF in.certificate # None
  THEN {Plan([NoAuth EXCEPT !.type = "mtls", !.certificate = in.certificate],
             current.refs, {}, in.secrets)}
  ELSE IF current.type = "mtls"
  THEN {Plan([NoAuth EXCEPT !.type = "mtls", !.certificate = current.certificate],
             current.refs, current.refs, {})}
  ELSE {}

KafkaOAuthPlans(current, in) ==
  LET stored == IF current.type = "oauth" THEN current ELSE NoAuth
      auth == [NoAuth EXCEPT !.type = "oauth",
                 !.tokenUrl = Or(in.tokenUrl, stored.tokenUrl),
                 !.clientId = Or(in.clientId, stored.clientId),
                 !.scopes = Either(Either(in.scopes, stored.scopes), Empty),
                 !.ca = IF in.defaultTrust THEN in.ca ELSE Either(in.ca, stored.ca)] IN
  IF auth.tokenUrl \in {None, Empty} \/ auth.clientId \in {None, Empty} THEN {}
  ELSE OneSecret(auth, current.refs, ClientSecret, ClientSecret \in in.secrets)

\* plan_authentication
KafkaPlans(current, in) ==
  CASE in.type = "none" -> {Plan(NoAuth, current.refs, {}, {})}
    [] in.type \in PasswordTypes -> KafkaPasswordPlans(current, in)
    [] in.type = "mtls" -> KafkaMtlsPlans(current, in)
    [] in.type = "oauth" -> KafkaOAuthPlans(current, in)

RegistryMtlsPlans(auth, refs, in) ==
  IF in.certificate = None \/ (PrivateKey \notin in.secrets /\ Of(refs, PrivateKey) = {}) THEN {}
  ELSE {Plan(auth, refs,
             IF PrivateKey \in in.secrets THEN {}
             ELSE Of(refs, PrivateKey) \cup Of(refs, KeyPassword),
             in.secrets)}

\* plan_registry_authentication; the CA of the connection is part of the plan.
RegistryPlans(registry, in) ==
  LET refs == AuthOf(registry).refs
      auth == [t \in DOMAIN NoAuth |-> IF t \in Texts \cup {"type"} THEN in[t] ELSE {}] IN
  CASE in.type = "none" -> {Plan(NoAuth, refs, {}, {})}
    [] in.type \in {"basic", "token"} ->
         OneSecret([auth EXCEPT !.scopes = None], refs, SecretField(in.type), in.secrets # {})
    [] in.type = "mtls" -> RegistryMtlsPlans([auth EXCEPT !.scopes = None], refs, in)
    [] in.type = "oauth" -> OneSecret(auth, refs, ClientSecret, in.secrets # {})

\* _auth_document, _registry_auth_document: `made` marks the new references.
AuthDocument(plan, service, made) ==
  [plan.auth EXCEPT !.refs =
     {r \in plan.retained : r.field \notin plan.staged}
       \cup {Reference(service, field, made) : field \in plan.staged}]
===============================================================================
