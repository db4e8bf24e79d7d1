------------------------------ MODULE SshMaster ------------------------------
(***************************************************************************)
(* The tunnel of one cluster: OpenSSH's authenticated connections and the  *)
(* control socket file through which every ctun process reaches one of     *)
(* them (ssh.py).  A connection is named by the number of its              *)
(* authentication.  The socket file names the connection that listens, or  *)
(* listened, behind it: a connection that dies without cleaning up leaves  *)
(* the file in place, stale.                                               *)
(*                                                                         *)
(* The actions below change only this module's variables; TunnelSession    *)
(* says which ctun process takes them and when.                            *)
(***************************************************************************)
EXTENDS Integers

CONSTANTS
  MaxAuth,          \* bound: number of successful authentications
  CheckMayTimeOut,  \* TRUE: `ssh -O check` may time out on a live tunnel
  CloseMayFail,     \* TRUE: `ssh -O exit` may fail or time out on a live tunnel
  KeyAuth           \* TRUE: the user has a key, so ssh can connect on its own

ASSUME MaxAuthAssumption == MaxAuth \in Nat
ASSUME SshAssumption == /\ CheckMayTimeOut \in BOOLEAN
                        /\ CloseMayFail \in BOOLEAN
                        /\ KeyAuth \in BOOLEAN

VARIABLES
  conns,   \* the authenticated ssh connections that are alive
  socket,  \* the connection whose control socket is at the path, or NoSocket
  auths    \* number of authentications so far

sshVars == <<conns, socket, auths>>

Conn == 1 .. MaxAuth
NoSocket == 0

SshTypeOK ==
  /\ conns \subseteq Conn
  /\ socket \in Conn \cup {NoSocket}
  /\ auths \in 0 .. MaxAuth

SshInit ==
  /\ conns = {}
  /\ socket = NoSocket
  /\ auths = 0

(* The tunnel is up: a live connection listens at the socket. *)
Live == socket \in conns

(* is_live may answer `answer`: never yes without a tunnel; a check that    *)
(* hangs reads as no.                                                       *)
IsLive(answer) ==
  /\ answer => Live
  /\ (Live /\ ~CheckMayTimeOut) => answer

(* A command rides the tunnel; should the socket be gone, ssh connects on   *)
(* its own in batch mode, which succeeds only with a key.                   *)
CommandReaches == Live \/ KeyAuth

(* `ssh -M -N -f` authenticated: the connection goes to the background.  A  *)
(* socket file already at the path makes ssh go on without multiplexing.    *)
Connect ==
  /\ auths < MaxAuth
  /\ auths' = auths + 1
  /\ conns' = conns \cup {auths + 1}
  /\ socket' = IF socket = NoSocket THEN auths + 1 ELSE socket

(* The unlink in prepare_socket: whatever is at the path by now.            *)
DropSocket ==
  /\ socket' = NoSocket
  /\ UNCHANGED <<conns, auths>>

(* `ssh -O exit`: the connection behind the socket ends and its file goes.  *)
(* Nothing to end, or a failed request, changes nothing.                    *)
Close ==
  \/ /\ Live
     /\ conns' = conns \ {socket}
     /\ socket' = NoSocket
     /\ UNCHANGED auths
  \/ /\ Live => CloseMayFail
     /\ UNCHANGED sshVars

(* The network, ControlPersist, a kill or a reboot ends a connection; its   *)
(* socket file goes with it or stays behind.                                *)
ConnectionDies(c) ==
  /\ c \in conns
  /\ conns' = conns \ {c}
  /\ \/ UNCHANGED socket
     \/ socket = c /\ socket' = NoSocket
  /\ UNCHANGED auths
==============================================================================
