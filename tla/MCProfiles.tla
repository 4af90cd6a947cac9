------------------------------ MODULE MCProfiles ------------------------------
(* Requests for Profiles: every pair of options of a service, with every        *)
(* authentication type, and pairs across the services.                          *)
EXTENDS Profiles, TLC

on(name, value) == <<"on", name, value>>
given(name) == on(name, "given")
unset(name) == <<"unset", name>>
replace(service, field) == <<"replace", <<service, field>>>>

Request(atoms) ==
  LET ons == {a \in atoms : a[1] = "on"} IN
  [on |-> [n \in {a[2] : a \in ons} |-> (CHOOSE a \in ons : a[2] = n)[3]],
   unset |-> {a[2] : a \in {b \in atoms : b[1] = "unset"}},
   replace |-> {a[2] : a \in {b \in atoms : b[1] = "replace"}}]

Consistent(atoms) ==
  \A a, b \in {x \in atoms : x[1] = "on"} : a[2] = b[2] => a = b

Requests(sets) == {Request(s) : s \in {x \in sets : Consistent(x)}}

KafkaFiles(key)    == {given("client_certificate_file"), on("client_key_file", key)}
RegistryFiles(key) == {given("registry_client_certificate_file"), on("registry_client_key_file", key)}
KafkaLogin    == {given("oauth_token_url"), given("oauth_client_id")}
RegistryLogin == {given("registry_oauth_token_url"), given("registry_oauth_client_id")}

KafkaOptions ==
  {{}, KafkaFiles("plain"), KafkaFiles("encrypted"), KafkaLogin}
    \cup {{on("transport", t)} : t \in {"plaintext", "tls"}}
    \cup {{given(n)} : n \in {"ca_file", "username", "oauth_scope", "oauth_ca_file",
                              "client_certificate_file", "oauth_token_url"}}
    \cup {{unset(n)} : n \in {"kafka.tls.ca", "kafka.auth.oauth.scopes", "kafka.auth.oauth.ca"}}
    \cup {{replace("kafka", f)} : f \in {Password, PrivateKey, KeyPassword, ClientSecret}}

RegistryOptionSets ==
  {{}, RegistryFiles("plain"), RegistryFiles("encrypted"), RegistryLogin,
   {on("registry_oauth_routing", "")}, {on("registry_client_key_file", "plain")}}
    \cup {{on("registry_url", u)} : u \in {"http", "https", "malformed"}}
    \cup {{on("registry_provider", p), on("registry_url", "https")} : p \in {"confluent", "apicurio"}}
    \cup {{given(n)} : n \in {"registry_username", "registry_ca_file", "registry_oauth_scope",
                              "registry_oauth_ca_file", "registry_oauth_routing"}}
    \cup {{unset(n)} : n \in {"registry", "registry.tls.ca"} \cup RegistryOAuthUnsets}
    \cup {{replace("registry", f)} : f \in {Password, Token, PrivateKey, KeyPassword, ClientSecret}}

KafkaTypeSets    == {{}} \cup {{on("auth_type", t)} : t \in {"none", "plain", "scram", "mtls", "oauth"}}
RegistryTypeSets == {{}} \cup {{on("registry_auth", t)} : t \in {"none", "basic", "token", "mtls", "oauth"}}

FirstEdits ==
  Requests({t \cup a \cup b : t \in KafkaTypeSets, a, b \in KafkaOptions}
             \cup {t \cup a \cup b : t \in RegistryTypeSets, a, b \in RegistryOptionSets}
             \cup {a \cup b : a \in KafkaOptions, b \in RegistryOptionSets})

KafkaAdds ==
  {{}, {given("ca_file")},
   {on("auth_type", "plain"), given("username")},
   {on("auth_type", "mtls")} \cup KafkaFiles("encrypted"),
   {on("auth_type", "oauth"), given("oauth_ca_file"), given("oauth_scope")} \cup KafkaLogin}

Https(provider, auth) ==
  {on("registry_provider", provider), on("registry_url", "https"), on("registry_auth", auth)}

RegistryAdds ==
  {{}, {on("registry_url", "http")}, {on("registry_url", "malformed")},
   {on("registry_url", "https"), given("registry_ca_file")},
   Https("confluent", "token"),
   Https("apicurio", "token"),
   Https("confluent", "basic") \cup {given("registry_username"), given("registry_ca_file")},
   Https("apicurio", "basic") \cup {given("registry_username")},
   Https("apicurio", "mtls") \cup RegistryFiles("encrypted"),
   Https("confluent", "mtls") \cup RegistryFiles("plain") \cup {given("registry_ca_file")},
   Https("apicurio", "oauth") \cup RegistryLogin,
   Https("apicurio", "oauth") \cup RegistryLogin \cup {given("registry_oauth_routing")},
   Https("confluent", "oauth") \cup RegistryLogin \cup {on("registry_oauth_routing", "")},
   Https("confluent", "oauth") \cup RegistryLogin
     \cup {given("registry_oauth_routing"), given("registry_oauth_scope"),
           given("registry_oauth_ca_file")}}

PlainLogin == {on("auth_type", "plain"), given("username")}

FirstAdds ==
  Requests({k \cup r : k \in KafkaAdds, r \in {{}}} \cup {r \cup k : r \in RegistryAdds, k \in {{}, PlainLogin}})

MCAddRequests == 0 :> FirstAdds @@ 1 :> Requests({PlainLogin}) @@ 2 :> {}
SecondEdits ==
  Requests({{on("registry_provider", "apicurio"), on("registry_url", "https")},
            {on("auth_type", "none"), on("transport", "plaintext")}, {unset("registry")},
            {on("registry_auth", "none")}, {given("registry_ca_file")}, {unset("description")},
            {given("description")}})

MCEditRequests == 0 :> {} @@ 1 :> FirstEdits @@ 2 :> SecondEdits @@ 3 :> {}
MCOtherRequests ==
  0 :> {} @@ 1 :> Requests({{replace("kafka", Password)}, {unset("registry")}}) @@ 2 :> {} @@ 3 :> {}
===============================================================================
