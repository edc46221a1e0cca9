--------------------------- MODULE MongoNewClient ---------------------------
(***************************************************************************)
(* One call of mongodb.NewTLS (src/mongodb/tls.go, tls_options.go) and the *)
(* mongodb.NewClient given its result (client.go, client_options.go): the  *)
(* blocks of the key file, the copies of the password, the options in any  *)
(* order and the TLS configuration the driver is connected with.           *)
(*                                                                         *)
(* What follows Connect is in MongoClient.                                 *)
(***************************************************************************)
EXTENDS Naturals, Sequences, SequencesExt

CONSTANTS
  Passwords,
  Password,    \* the one encrypted keys are encrypted with
  MaxBlocks,   \* bound: blocks of the key file
  MaxOptions   \* bound: options of NewTLS and of NewClient

NoPassword == "none"

ASSUME SetupAssumption ==
  /\ Password \in Passwords /\ NoPassword \notin Passwords
  /\ MaxBlocks \in Nat /\ MaxOptions \in Nat

\* Blocks of a PEM file: a key in the clear, in encrypted PKCS #8, there but damaged or
\* of a kind that cannot be encoded again, in the legacy encryption of PEM, of a type
\* X509KeyPair does not know, or no private key.
Protected == {"encrypted", "damaged"}
Keys == {"clear", "legacy", "unknown"} \cup Protected
Blocks == Keys \cup {"other"}

\* A caller's options.ClientOptions: nil, with a URI, with a TLS configuration, or
\* with neither.
DriverOptions == {"nil", "uri", "tls", "plain"}

VARIABLES
  \* NewTLS
  tls,            \* "options", "key", "pair", "made" or "failed"
  keyFile,        \* its blocks
  password,       \* clientKeyPassword
  copies,         \* copies of a password not overwritten yet
  read,           \* blocks of keyFile read
  resultPEM,
  fault,          \* what is wrong with the key file, or "none"
  \* NewClient
  client,         \* "options", "connect", "connected" or "failed"
  uri,            \* "tls" if it asks for TLS, "plain", or "cleared"
  driverOptions,
  tlsConfigured, tlsConfig,  \* tlsConfig is "none" or "made"
  transport,      \* the TLS configuration of the driver: "none", "uri", "tls" or "made"
  options         \* options applied, of NewTLS and NewClient

tlsVars == <<tls, keyFile, password, copies, read, resultPEM, fault>>
clientVars == <<client, uri, driverOptions, tlsConfigured, tlsConfig, transport>>
vars == <<tlsVars, clientVars, options>>

Init ==
  /\ tls = "options" /\ keyFile \in BoundedSeq(Blocks, MaxBlocks)
  /\ password = NoPassword /\ copies = 0
  /\ read = 0 /\ resultPEM = <<>> /\ fault = "none"
  /\ client = "options" /\ uri \in {"tls", "plain"} /\ driverOptions = <<>>
  /\ tlsConfigured = FALSE /\ tlsConfig = "none"
  /\ transport = "none" /\ options = 0

Option == options < MaxOptions /\ options' = options + 1

----------------------------------------------------------------------------
(* NewTLS *)
Held == IF password = NoPassword THEN 0 ELSE 1

\* Bug: an earlier password is replaced, not overwritten.
BugWithClientKeyPassword ==
  /\ tls = "options" /\ Option
  /\ password' \in Passwords
  /\ copies' = copies + 1
  /\ UNCHANGED <<tls, keyFile, read, resultPEM, fault, clientVars>>

WithClientKeyPassword ==
  /\ tls = "options" /\ Option
  /\ password' \in Passwords
  /\ copies' = copies - Held + 1
  /\ UNCHANGED <<tls, keyFile, read, resultPEM, fault, clientVars>>

ClearPassword == password' = NoPassword /\ copies' = copies - Held

\* validate, and the files build reads before it looks at the key.
ReadFiles ==
  /\ tls = "options"
  /\ \/ tls' = "key" /\ UNCHANGED <<password, copies>>
     \/ tls' = "failed" /\ ClearPassword
  /\ UNCHANGED <<keyFile, read, resultPEM, fault, clientVars, options>>

FailTLS(why) == tls' = "failed" /\ fault' = why /\ ClearPassword /\ UNCHANGED <<read, resultPEM>>

KeyFault(block) ==
  IF block \in Protected /\ password = NoPassword THEN "noPassword"
  ELSE IF block \in Protected /\ password # Password THEN "wrongPassword"
  ELSE IF block \in {"damaged", "legacy", "unknown"} THEN block ELSE "none"

InTheClear(block) == IF block = "encrypted" THEN "clear" ELSE block

\* Bug: every key is prepared, X509KeyPair takes the first.
BugSecondKey == FALSE

\* privateKeyCount
SecondKey == \E i \in 1..read : keyFile[i] \in Keys

\* One block of prepareClientKey.
PrepareBlock ==
  /\ tls = "key" /\ read < Len(keyFile)
  /\ LET block == keyFile[read + 1]
         why == IF block \in Keys /\ SecondKey THEN "several" ELSE KeyFault(block)
     IN  IF why # "none" THEN FailTLS(why)
         ELSE /\ read' = read + 1 /\ resultPEM' = Append(resultPEM, InTheClear(block))
              /\ UNCHANGED <<tls, password, copies, fault>>
  /\ UNCHANGED <<keyFile, clientVars, options>>

KeyPrepared ==
  /\ tls = "key" /\ read = Len(keyFile)
  /\ IF \E i \in DOMAIN keyFile : keyFile[i] \in Keys
     THEN tls' = "pair" /\ UNCHANGED <<password, copies, read, resultPEM, fault>>
     ELSE FailTLS("noKey")
  /\ UNCHANGED <<keyFile, clientVars, options>>

\* X509KeyPair: the key may not be the certificate's.
KeyPair ==
  /\ tls = "pair"
  /\ tls' \in {"made", "failed"} /\ ClearPassword
  /\ UNCHANGED <<keyFile, read, resultPEM, fault, clientVars, options>>

----------------------------------------------------------------------------
(* NewClient; its options need not wait for NewTLS *)
\* A copy of the configuration NewTLS returned, or of nil.
WithTLS ==
  /\ client = "options" /\ Option
  /\ tlsConfigured' = TRUE
  /\ tlsConfig' \in {"none"} \cup (IF tls = "made" THEN {"made"} ELSE {})
  /\ UNCHANGED <<tlsVars, client, uri, driverOptions, transport>>

WithDriverOptions ==
  /\ client = "options" /\ Option
  /\ \E option \in DriverOptions : driverOptions' = Append(driverOptions, option)
  /\ UNCHANGED <<tlsVars, client, uri, tlsConfigured, tlsConfig, transport>>

Valid ==
  /\ tlsConfigured => tlsConfig # "none"
  /\ \A k \in DOMAIN driverOptions : driverOptions[k] \notin {"nil", "uri"}

Validate ==
  /\ client = "options"
  /\ \/ client' = "connect" /\ Valid
     \/ client' = "failed"  \* or the URI or the name of the database is refused
  /\ UNCHANGED <<tlsVars, uri, driverOptions, tlsConfigured, tlsConfig, transport, options>>

\* Bug: the caller's options come last, as in a plain use of the driver.
BugMerged == <<uri, tlsConfig>> \o driverOptions

\* What the driver merges: the URI, the caller's options and the TLS of NewTLS.
Merged == <<uri>> \o driverOptions \o <<tlsConfig>>

\* The driver (external) takes the last configuration that is there.
Effective(merged) ==
  LET set == {i \in DOMAIN merged : merged[i] \notin {"none", "plain"}}
  IN  IF set = {} THEN "none" ELSE merged[Max(set)]

\* The URI and the options are dropped, connected or not.
Connect ==
  /\ client = "connect"
  /\ \/ client' = "connected" /\ transport' = Effective(Merged)
     \/ client' = "failed" /\ UNCHANGED transport
  /\ uri' = "cleared" /\ driverOptions' = <<>>
  /\ UNCHANGED <<tlsVars, tlsConfigured, tlsConfig, options>>

Finished == client \in {"connected", "failed"} /\ tls \in {"made", "failed"} /\ UNCHANGED vars

Next ==
  \/ WithClientKeyPassword \/ ReadFiles \/ PrepareBlock \/ KeyPrepared \/ KeyPair
  \/ WithTLS \/ WithDriverOptions \/ Validate \/ Connect
  \/ Finished

Spec == Init /\ [][Next]_vars

----------------------------------------------------------------------------
TypeOK ==
  /\ tls \in {"options", "key", "pair", "made", "failed"}
  /\ keyFile \in Seq(Blocks) /\ resultPEM \in Seq(Blocks)
  /\ password \in Passwords \cup {NoPassword}
  /\ copies \in Nat /\ read \in 0..Len(keyFile)
  /\ fault \in {"none", "noPassword", "wrongPassword", "damaged", "legacy", "unknown", "several",
               "noKey"}
  /\ client \in {"options", "connect", "connected", "failed"}
  /\ uri \in {"tls", "plain", "cleared"} /\ driverOptions \in Seq(DriverOptions)
  /\ tlsConfigured \in BOOLEAN /\ tlsConfig \in {"none", "made"}
  /\ transport \in {"none", "tls", "made"}
  /\ options \in 0..MaxOptions

\* Where the private keys of a key file are.
KeysAt(blocks) == {i \in DOMAIN blocks : blocks[i] \in Keys}

\* prepareClientKey accepts the files README.md:244-247 describes, one private key of
\* a type it lists among any other blocks, and gives X509KeyPair the same blocks in
\* the same order with the key in the clear; it names what is wrong with the others.
KeyAsSpecified ==
  /\ tls \in {"pair", "made"} =>
       /\ \E i \in DOMAIN keyFile :
            KeysAt(keyFile) = {i} /\ keyFile[i] \in {"clear", "encrypted"}
       /\ resultPEM = [i \in DOMAIN keyFile |-> InTheClear(keyFile[i])]
  /\ fault = "noKey" => KeysAt(keyFile) = {}
  /\ fault = "several" =>
       \E i, j \in KeysAt(keyFile) :
         i # j /\ KeysAt(resultPEM) = {i} /\ resultPEM[i] = "clear"
  /\ fault \notin {"none", "noKey", "several"} =>
       \E i \in KeysAt(keyFile) :
         /\ \A j \in KeysAt(keyFile) : i <= j
         /\ keyFile[i] \in IF fault \in Keys THEN {fault} ELSE Protected

\* No copy of a password outlives NewTLS, whichever way it ends and however many
\* passwords it was given (README.md:247).
PasswordGone == tls \in {"made", "failed"} => copies = 0

\* What the passes over the key file have found so far: the blocks read are those of
\* the result, with at most one key, in the clear.
KeyInv ==
  /\ resultPEM = [i \in 1..read |-> InTheClear(keyFile[i])]
  /\ \A i \in 1..read : keyFile[i] \in {"clear", "encrypted", "other"}
  /\ \A i, j \in 1..read : {keyFile[i], keyFile[j]} \subseteq Keys => i = j
  /\ tls = "options" => read = 0
  /\ fault # "none" => tls = "failed"
  /\ tls \in {"pair", "made"} => read = Len(keyFile) /\ KeysAt(keyFile) # {}

\* The copy that is left is of the password to be used, and of none when NewTLS ends.
CopyInv == copies = Held /\ (tls \in {"made", "failed"} => password = NoPassword)

\* What validate leaves for the driver to merge.
MergeInv ==
  /\ client \in {"options", "connect"} => uri # "cleared"
  /\ client = "connect" => Valid

\* The shape of the state, and the secrets it may still hold.
SecretsInv == TypeOK /\ KeyInv /\ CopyInv /\ MergeInv /\ PasswordGone

\* A client connected after WithTLS uses the configuration of NewTLS, in whatever
\* order the options came and whatever TLS the URI and they ask for; a caller that
\* passes the nil of a NewTLS that failed is refused (client_options.go:69).
TLSWins == client = "connected" /\ tlsConfigured => transport = "made"
=============================================================================
