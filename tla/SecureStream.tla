----------------------------- MODULE SecureStream -----------------------------
(***************************************************************************)
(* What a TLS endpoint (tlspsk.Session) promises to those who hold it: two *)
(* bounded streams, decrypted data towards the host and encrypted data     *)
(* towards the device, each read in order, without loss or repetition,     *)
(* until the endpoint fails; the first failure stands and nothing is read  *)
(* after it.  Locks, queues and waiting do not appear.                     *)
(***************************************************************************)
EXTENDS Naturals, SequencesExt

CONSTANT QueueLimit   \* what each stream holds unread

VARIABLES
  established,         \* the handshake is over
  failure,             \* "nil", or for ever the first failure
  arrived, delivered,  \* plaintext: what came in, what was read of it
  emitted, collected   \* ciphertext: what was produced, what was read of it

streamVars == <<established, failure, arrived, delivered, emitted, collected>>

StreamInit ==
  /\ established = FALSE /\ failure = "nil"
  /\ arrived = <<>> /\ delivered = <<>> /\ emitted = <<>> /\ collected = <<>>

\* Records of the peer, or data of the host, are worked on.
Advance ==
  /\ failure = "nil" /\ failure' = "nil"
  /\ established => established'
  /\ IsPrefix(arrived, arrived') /\ Len(arrived') - Len(delivered) <= QueueLimit
  /\ IsPrefix(emitted, emitted') /\ Len(emitted') - Len(collected) <= QueueLimit
  /\ UNCHANGED <<delivered, collected>>

GivePlain ==
  /\ failure = "nil" /\ IsPrefix(delivered, delivered') /\ IsPrefix(delivered', arrived)
  /\ UNCHANGED <<established, failure, arrived, emitted, collected>>

GiveCipher ==
  /\ failure = "nil" /\ IsPrefix(collected, collected') /\ IsPrefix(collected', emitted)
  /\ UNCHANGED <<established, failure, arrived, delivered, emitted>>

\* What was not read is lost.
Break ==
  /\ failure = "nil" /\ failure' # "nil"
  /\ UNCHANGED <<arrived, delivered, emitted, collected>>

StreamNext == Advance \/ GivePlain \/ GiveCipher \/ Break
StreamSpec == StreamInit /\ [][StreamNext]_streamVars
=============================================================================
