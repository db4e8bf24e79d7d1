----------------------------- MODULE KnownHosts -----------------------------
(***************************************************************************)
(* The host key of one cluster: the key its server presents, the keys that *)
(* known_hosts files hold for it, and what ssh makes of the one by the     *)
(* other (ssh.py, hostkey.py).  keys[Own] stands for ssh's own files,      *)
(* which count while the config names no file.                             *)
(***************************************************************************)
EXTENDS ConfigFile

CONSTANTS
  Keys,  \* host keys
  Kind   \* the kind of each key (ED25519, RSA, ...)

VARIABLES
  server,  \* the key the server presents now
  keys     \* the keys each file holds for the cluster

hostVars == <<server, keys>>

HostTypeOK ==
  /\ server \in Keys
  /\ keys \in [Files \cup {Own} -> SUBSET Keys]

(* What a login under the settings of text makes of a key: ssh compares it  *)
(* with the known key of its kind.                                          *)
Verdict(text, key) ==
  CASE key \in keys[text.file] -> "known"
    [] key \notin keys[text.file] /\ (\E known \in keys[text.file] : Kind[known] = Kind[key]) -> "changed"
    [] OTHER -> "new"

(* A login whose key is new takes it on first contact, and records it,      *)
(* unless checking is strict.  Every other login leaves the files alone.    *)
TakeNewKey ==
  /\ Loads(config) /\ ~config.strict
  /\ Verdict(config, server) = "new"
  /\ keys' = [keys EXCEPT ![config.file] = @ \cup {server}]
  /\ UNCHANGED server

(* The server is given another key.                                         *)
Rekey ==
  /\ \E key \in Keys \ {server} : server' = key
  /\ UNCHANGED keys

(* The two halves of the helper's `pin`: the host's keys leave the file,    *)
(* and the new line is appended.                                            *)
RemoveKeys(file) ==
  /\ keys' = [keys EXCEPT ![file] = {}]
  /\ UNCHANGED server

AppendKey(file, key) ==
  /\ keys' = [keys EXCEPT ![file] = @ \cup {key}]
  /\ UNCHANGED server
==============================================================================
