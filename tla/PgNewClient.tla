---------------------------- MODULE PgNewClient -----------------------------
(***************************************************************************)
(* One call of postgresql.NewClient (src/postgresql/client.go, config.go   *)
(* and client_options.go): the options in any order, the configuration pgx *)
(* derives from them, the caller's configurers, TLS, the validations and   *)
(* the pool.                                                               *)
(*                                                                         *)
(* An address is a host with a port.  Of a TLS configuration only what the *)
(* guarantees are about is kept: whether the server is verified, and under *)
(* which name.  The names of the specification differ from those of        *)
(* PgClient, the client it makes, so that one module can prove about both. *)
(***************************************************************************)
EXTENDS Integers, Sequences, SequencesExt

CONSTANTS
  Addresses,
  Host,        \* Host[a]: the host of address a
  Sockets,     \* hosts that are Unix sockets
  HostLists,   \* non-empty sequences of addresses a setting can name
  Routes,      \* primary and fallbacks a caller's configurer may put in place
  Modes,       \* values of sslmode
  Names,       \* server names a caller can set
  Values,      \* values of the limits of the pool, some too small
  MaxOptions   \* bound: options of a call

AllModes == {"disable", "allow", "prefer", "require", "verify-ca", "verify-full"}
NoName == "noname"
EmptyHost == "emptyhost"

\* TLS of an endpoint: none, encrypted only, with a certificate of a known authority,
\* or verified under a name.
Plain == [tls |-> "none", name |-> NoName]
Encrypted == [tls |-> "encrypted", name |-> NoName]
Authority == [tls |-> "authority", name |-> NoName]
Verified(n) == [tls |-> "verified", name |-> n]

\* A way to connect: an address with its TLS.
Endpoint(a, t) == [address |-> a, tls |-> t.tls, name |-> t.name]
Endpoints ==
  [address : Addresses, tls : {"none", "encrypted", "authority"}, name : {NoName}]
    \cup [address : Addresses, tls : {"verified"}, name : Names \cup {Host[a] : a \in Addresses}]

ASSUME PgAssumption ==
  /\ DOMAIN Host = Addresses /\ \A a \in Addresses : Host[a] # NoName
  /\ HostLists \subseteq Seq(Addresses) /\ HostLists # {} /\ <<>> \notin HostLists
  /\ Routes \subseteq Seq(Endpoints) /\ <<>> \notin Routes
  /\ Modes \subseteq AllModes
  /\ NoName \notin Names
  /\ Values \subseteq Int
  /\ MaxOptions \in Nat

\* The limits of the pool, and the least value of each; one name stands for the
\* durations that may be zero.
Limits == {"MaxConns", "MinConns", "MinIdleConns", "MaxConnLifetime", "HealthCheckPeriod"}
Least == [l \in Limits |-> IF l \in {"MaxConns", "HealthCheckPeriod"} THEN 1 ELSE 0]

\* A tls.Config given by the caller: its ServerName, and whether it would be refused
\* (InsecureSkipVerify, a version below 1.2).
Bases == [name : Names \cup {NoName}, valid : BOOLEAN]
NoBase == [name |-> NoName, valid |-> FALSE, none |-> TRUE]

VARIABLES
  stage,          \* the next step of NewClient, or "connected" or "failed"
  options,        \* options applied
  \* fields of Client
  stringHosts, stringMode,  \* what connectionString names
  paramHosts, paramMode,    \* connectionParams; <<>> and "unset" if absent
  configurers,    \* poolConfigurers, by what they do
  tlsConfigured, tlsConfig, requireTLS, connectionCheck,
  \* poolConfig
  endpoints,      \* primary and fallbacks: [address, tls, name]
  wanted,         \* the addresses before TLS was applied
  limits,         \* of the pool, by name
  driver          \* the pgxpool.Pool exists and is not closed

settings == <<stringHosts, stringMode, paramHosts, paramMode, configurers, tlsConfigured,
              tlsConfig, requireTLS, connectionCheck>>
newVars == <<stage, options, settings, endpoints, wanted, limits, driver>>

NewInit ==
  /\ stage = "options" /\ options = 0
  /\ stringHosts \in HostLists /\ stringMode \in Modes
  /\ paramHosts = <<>> /\ paramMode = "unset"
  /\ configurers = <<>>
  /\ tlsConfigured = FALSE /\ tlsConfig = NoBase /\ requireTLS = FALSE
  /\ connectionCheck = TRUE
  /\ endpoints = <<>> /\ wanted = {} /\ driver = FALSE
  /\ limits = [Least EXCEPT !.MaxConns = 2]  \* pgx's defaults are valid

----------------------------------------------------------------------------
(* The options *)
Option ==
  /\ stage = "options" /\ options < MaxOptions
  /\ options' = options + 1
  /\ UNCHANGED <<stage, endpoints, wanted, limits, driver>>

WithConnectionString ==
  /\ Option
  /\ \E hosts \in HostLists, mode \in Modes : stringHosts' = hosts /\ stringMode' = mode
  /\ UNCHANGED <<paramHosts, paramMode, configurers, tlsConfigured, tlsConfig, requireTLS,
                 connectionCheck>>

WithHost ==
  /\ Option
  /\ paramHosts' \in HostLists
  /\ UNCHANGED <<stringHosts, stringMode, paramMode, configurers, tlsConfigured, tlsConfig,
                 requireTLS, connectionCheck>>

WithSSLMode ==
  /\ Option
  /\ paramMode' \in Modes
  /\ UNCHANGED <<stringHosts, stringMode, paramHosts, configurers, tlsConfigured, tlsConfig,
                 requireTLS, connectionCheck>>

\* A nil configuration replaces an earlier one and is refused by validate.
WithTLSConfig ==
  /\ Option
  /\ tlsConfigured' = TRUE /\ requireTLS' = TRUE
  /\ tlsConfig' \in Bases \cup {NoBase}
  /\ UNCHANGED <<stringHosts, stringMode, paramHosts, paramMode, configurers, connectionCheck>>

WithRequireTLS ==
  /\ Option
  /\ requireTLS' = TRUE
  /\ UNCHANGED <<stringHosts, stringMode, paramHosts, paramMode, configurers, tlsConfigured,
                 tlsConfig, connectionCheck>>

WithConnectionCheck ==
  /\ Option
  /\ connectionCheck' \in BOOLEAN
  /\ UNCHANGED <<stringHosts, stringMode, paramHosts, paramMode, configurers, tlsConfigured,
                 tlsConfig, requireTLS>>

\* What a configurer does to the configuration pgx made: it puts any primary and
\* fallbacks in place of the parsed ones (other hosts, less TLS or none, more or fewer
\* fallbacks), sets a limit, or fails; or it is nil.
Tampering == [kind : {"routes"}, routes : Routes] \cup [kind : {"fails", "nil"}]
Setting == [kind : {"limit"}, limit : Limits, value : Values]

withPoolConfigurer(configurer) ==
  /\ Option
  /\ configurers' = Append(configurers, configurer)
  /\ UNCHANGED <<stringHosts, stringMode, paramHosts, paramMode, tlsConfigured, tlsConfig,
                 requireTLS, connectionCheck>>

WithPoolConfigurer == \E configurer \in Tampering \cup Setting : withPoolConfigurer(configurer)

\* WithMaxConnections and the options of the other limits refuse a value that is too
\* small, but only when their configurer runs.
WithLimit ==
  \E s \in Setting :
    withPoolConfigurer(IF s.value < Least[s.limit] THEN [kind |-> "fails"] ELSE s)

----------------------------------------------------------------------------
(* NewClient *)
Fail == stage' = "failed" /\ UNCHANGED <<endpoints, wanted, limits, driver>>

\* A connection string may also have spaces around it.
Validate ==
  /\ stage = "options"
  /\ \/ /\ ~(tlsConfigured /\ tlsConfig = NoBase)
        /\ [kind |-> "nil"] \notin ToSet(configurers)
        /\ stage' = "parse" /\ UNCHANGED <<endpoints, wanted, limits, driver>>
     \/ Fail
  /\ UNCHANGED <<options, settings>>

\* pgx: the endpoints an sslmode makes of an address, a socket being always plain.
Attempts(a, mode) ==
  IF Host[a] \in Sockets THEN <<Endpoint(a, Plain)>>
  ELSE CASE mode = "disable" -> <<Endpoint(a, Plain)>>
         [] mode = "allow" -> <<Endpoint(a, Plain), Endpoint(a, Encrypted)>>
         [] mode = "prefer" -> <<Endpoint(a, Encrypted), Endpoint(a, Plain)>>
         [] mode = "require" -> <<Endpoint(a, Encrypted)>>
         [] mode = "verify-ca" -> <<Endpoint(a, Authority)>>
         [] mode = "verify-full" -> <<Endpoint(a, Verified(Host[a]))>>

\* parseConnectionConfig: a parameter replaces what the string says.
Parsed ==
  LET hosts == IF paramHosts = <<>> THEN stringHosts ELSE paramHosts
      mode == IF paramMode = "unset" THEN stringMode ELSE paramMode
  IN  FlattenSeq([i \in DOMAIN hosts |-> Attempts(hosts[i], mode)])

\* A string or a parameter may be malformed.
Parse ==
  /\ stage = "parse"
  /\ \/ endpoints' = Parsed /\ stage' = "configure" /\ UNCHANGED <<wanted, limits, driver>>
     \/ Fail
  /\ UNCHANGED <<options, settings>>

Apply(c) ==
  \/ /\ c.kind = "routes"
     /\ endpoints' = c.routes /\ UNCHANGED limits
  \/ /\ c.kind = "limit"
     /\ limits' = [limits EXCEPT ![c.limit] = c.value] /\ UNCHANGED endpoints

\* The configurers run in order, after the parser.
Configure ==
  /\ stage = "configure" /\ configurers # <<>>
  /\ configurers' = Tail(configurers)
  /\ IF Head(configurers).kind = "fails" THEN Fail
     ELSE Apply(Head(configurers)) /\ UNCHANGED <<stage, wanted, driver>>
  /\ UNCHANGED <<options, stringHosts, stringMode, paramHosts, paramMode, tlsConfigured,
                 tlsConfig, requireTLS, connectionCheck>>

Configured ==
  /\ stage = "configure" /\ configurers = <<>>
  /\ stage' = "tls"
  /\ wanted' = {endpoints[i].address : i \in DOMAIN endpoints}
  /\ UNCHANGED <<options, settings, endpoints, limits, driver>>

\* tlsConfigForHost: each server is verified under its own host, or all under the
\* caller's name.
TLSConfigForHost(base, a) == Verified(IF base.name = NoName THEN Host[a] ELSE base.name)

\* Hosts that are no server's name.
Unnamed == Sockets \cup {EmptyHost}
Nameless(base, a) == base.name = NoName /\ Host[a] \in Unnamed

\* Bug: fallbacks are told apart by their host alone.
BugFresh(i) == \A j \in 1..(i - 1) : Host[endpoints[j].address] # Host[endpoints[i].address]

\* The first endpoint of its address (fallbackKey); the primary always is.
Fresh(i) == \A j \in 1..(i - 1) : endpoints[j].address # endpoints[i].address

\* applyTLSConfig
Secured(base) ==
  FlattenSeq([i \in DOMAIN endpoints |->
                LET a == endpoints[i].address
                IN  IF Fresh(i) THEN <<Endpoint(a, TLSConfigForHost(base, a))>> ELSE <<>>])

ApplyTLS ==
  /\ stage = "tls"
  /\ IF tlsConfigured /\ (~tlsConfig.valid \/ \E a \in wanted : Nameless(tlsConfig, a))
     THEN Fail
     ELSE /\ endpoints' = IF tlsConfigured THEN Secured(tlsConfig) ELSE endpoints
          /\ stage' = "validatePool"
          /\ UNCHANGED <<wanted, limits, driver>>
  /\ UNCHANGED <<options, settings>>

\* validatePoolConfig
ValidLimits ==
  /\ \A l \in Limits : limits[l] >= Least[l]
  /\ limits.MinConns <= limits.MaxConns /\ limits.MinIdleConns <= limits.MaxConns

ValidatePool ==
  /\ stage = "validatePool"
  /\ IF ValidLimits THEN stage' = "requireTLS" /\ UNCHANGED <<endpoints, wanted, limits, driver>>
                    ELSE Fail
  /\ UNCHANGED <<options, settings>>

\* Bug: only the primary is looked at.
BugAllTLS == endpoints[1].tls # "none"

\* validateTLSRequired
AllTLS == \A i \in DOMAIN endpoints : endpoints[i].tls # "none"

RequireTLS ==
  /\ stage = "requireTLS"
  /\ IF requireTLS /\ ~AllTLS THEN Fail
     ELSE stage' = "pool" /\ UNCHANGED <<endpoints, wanted, limits, driver>>
  /\ UNCHANGED <<options, settings>>

NewPool ==
  /\ stage = "pool"
  /\ \/ driver' = TRUE /\ stage' = (IF connectionCheck THEN "ping" ELSE "connected")
        /\ UNCHANGED <<endpoints, wanted, limits>>
     \/ Fail
  /\ UNCHANGED <<options, settings>>

\* Bug: a pool that does not answer is left open.
BugPing ==
  /\ stage = "ping"
  /\ stage' \in {"connected", "failed"}
  /\ UNCHANGED <<options, settings, endpoints, wanted, limits, driver>>

\* A pool that does not answer is closed.
Ping ==
  /\ stage = "ping"
  /\ \/ stage' = "connected" /\ UNCHANGED driver
     \/ stage' = "failed" /\ driver' = FALSE
  /\ UNCHANGED <<options, settings, endpoints, wanted, limits>>

Ended == stage \in {"connected", "failed"} /\ UNCHANGED newVars

NewNext ==
  \/ WithConnectionString \/ WithHost \/ WithSSLMode \/ WithTLSConfig \/ WithRequireTLS
  \/ WithConnectionCheck \/ WithPoolConfigurer \/ WithLimit
  \/ Validate \/ Parse \/ Configure \/ Configured \/ ApplyTLS \/ ValidatePool \/ RequireTLS
  \/ NewPool \/ Ping
  \/ Ended

NewSpec == NewInit /\ [][NewNext]_newVars

----------------------------------------------------------------------------
NewTypeOK ==
  /\ stage \in {"options", "parse", "configure", "tls", "validatePool", "requireTLS", "pool",
                "ping", "connected", "failed"}
  /\ options \in 0..MaxOptions
  /\ stringHosts \in HostLists /\ paramHosts \in HostLists \cup {<<>>}
  /\ stringMode \in Modes /\ paramMode \in Modes \cup {"unset"}
  /\ configurers \in Seq(Tampering \cup Setting)
  /\ tlsConfig \in Bases \cup {NoBase}
  /\ tlsConfigured \in BOOLEAN /\ requireTLS \in BOOLEAN /\ connectionCheck \in BOOLEAN
  /\ driver \in BOOLEAN
  /\ limits \in [Limits -> Int]
  /\ wanted \subseteq Addresses
  /\ endpoints \in Seq(Endpoints)

Reachable == {endpoints[i].address : i \in DOMAIN endpoints}
Encrypts == \A i \in DOMAIN endpoints : endpoints[i].tls # "none"

\* Every server that was configured is tried, once, and is verified under the caller's
\* name or else its own, which it must then have.
Covered ==
  /\ Reachable = wanted
  /\ IsInjective([i \in DOMAIN endpoints |-> endpoints[i].address])
  /\ \A i \in DOMAIN endpoints :
       /\ endpoints[i].tls = "verified"
       /\ endpoints[i].name \in {tlsConfig.name, Host[endpoints[i].address]} \ {NoName}
       /\ endpoints[i].name # tlsConfig.name =>
            tlsConfig.name = NoName /\ endpoints[i].name \notin Unnamed

\* A NewClient that fails leaves no pool behind, and there is none before its time.
NoPoolLeak == driver => stage \in {"ping", "connected"}

\* Whatever the order of the options and what the configurers set behind them, a pool
\* is made with limits that hold alone and together (client.go:70, config.go:103).
LimitsInv ==
  stage \in {"requireTLS", "pool", "ping", "connected"} =>
    /\ \A l \in Limits : limits[l] >= Least[l]
    /\ {limits["MinConns"], limits["MinIdleConns"]} \subseteq 0..limits["MaxConns"]

\* From applyTLSConfig and validateTLSRequired on nothing changes what they made sure of.
TLSInv ==
  /\ stage = "tls" => Reachable = wanted
  /\ stage \in {"validatePool", "requireTLS", "pool", "ping", "connected"} /\ tlsConfigured =>
       Covered
  /\ stage \in {"pool", "ping", "connected"} /\ requireTLS => Encrypts

\* What each step of the construction has made sure of.
StageInv == NewTypeOK /\ NoPoolLeak /\ LimitsInv /\ TLSInv

\* WithTLSConfig and WithRequireTLS, in whatever order and whatever routes the
\* configurers put in place, leave no way to connect without TLS
\* (client_options.go:57,200,214).
NoPlainTransport == driver /\ requireTLS => Encrypts

\* With WithTLSConfig every server is verified under its own name or the caller's,
\* and no server that was configured is lost or tried twice.
TLSCoversAll == driver /\ tlsConfigured => Covered
=============================================================================
