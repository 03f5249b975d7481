-------------------------------- MODULE Lending --------------------------------
(***************************************************************************)
(* What a connection lends to MsQuic: the buffers of the datagrams it      *)
(* sends, from write_pool, and the block of TLS secrets that MsQuic fills  *)
(* while the handshake runs and that is logged when it is over.  Both are  *)
(* raw pointers on MsQuic's side, so what matters is who owns them when.   *)
(*                                                                         *)
(* The connection is opened locally or offered to a listener.  Whether it  *)
(* may send is the module Connection's business: a send is one that passed *)
(* those checks.  write_pool is a set; a Bytes is a payload.               *)
(***************************************************************************)
EXTENDS Naturals, Sequences, FiniteSets

CONSTANTS Buffers,  \* the WriteBuffers that may be allocated
          Payloads  \* what is sent

VARIABLES
  native,   \* the handle: offered to the listener, refused, before, in and
            \* after its handshake, closing, closed
  listenerFile, \* ListenerInnerExclusive::sslkeylog_file is set
  file,     \* ConnectionInnerExclusive::sslkeylog_file is set
  block,    \* ::tls_secrets is set
  filled,   \* ... and MsQuic wrote the secrets to it
  pool,     \* ::write_pool
  content,  \* zerocopy of each WriteBuffer
  pointed,  \* MsQuic has a pointer to the block
  derived,  \* MsQuic derived the secrets
  lent,     \* the WriteBuffers MsQuic has a pointer to ...
  tracked,  \* ... and those of datagrams it still reports on
  asked,    \* the payload each one was last lent for
  promised, \* a key log file was accepted before the secrets were derived
  stranded, \* a set_param failed after the block was stored
  logged    \* the secrets were written to the file

tlsVars == <<listenerFile, file, block, filled, pointed, derived, promised, stranded, logged>>
dgramVars == <<pool, content, lent, tracked, asked>>
vars == <<native, tlsVars, dgramVars>>

Live == native \in {"open", "handshake", "connected"}

Init ==
  /\ native \in {"open", "offered"}
  /\ listenerFile \in (IF native = "offered" THEN BOOLEAN ELSE {FALSE})
  /\ file = FALSE /\ block = FALSE /\ filled = FALSE
  /\ pointed = FALSE /\ derived = FALSE
  /\ promised = FALSE /\ stranded = FALSE /\ logged = FALSE
  /\ pool = {} /\ lent = {} /\ tracked = {}
  /\ content = [b \in Buffers |-> << >>]
  /\ asked \in [Buffers -> Payloads]
--------------------------------------------------------------------------------
(* TLS secrets *)

\* The listener's file is cloned, the block handed to MsQuic, the connection
\* configured; the last two refuse the connection when they fail, and the block
\* is dropped.  A file that cannot be cloned only means no log.
HandleNewConnection(clone, param, configure) ==
  LET logs == listenerFile /\ clone
      ok == (logs => param) /\ configure
  IN /\ native = "offered"
     /\ native' = IF ok THEN "handshake" ELSE "refused"
     /\ file' = (ok /\ logs)
     /\ block' = (ok /\ logs)
     /\ pointed' = (logs /\ param)
     /\ promised' = (ok /\ logs)
     /\ UNCHANGED <<listenerFile, filled, derived, stranded, logged, dgramVars>>

\* set_sslkeylog_file; AlreadySet changes nothing.  The block is made, and
\* handed to MsQuic, only if there is none yet, and stays when that fails.
SetKeyLogFile(param) ==
  /\ Live /\ ~ file
  /\ \/ /\ ~ block
        /\ block' = TRUE
        /\ pointed' = param
        /\ stranded' = (stranded \/ ~ param)
        /\ file' = param
     \/ /\ block
        /\ file' = TRUE
        /\ UNCHANGED <<block, pointed, stranded>>
  /\ promised' = (promised \/ (file' /\ ~ derived))
  /\ UNCHANGED <<native, listenerFile, filled, derived, logged, dgramVars>>

Start ==
  /\ native = "open"
  /\ native' = "handshake"
  /\ UNCHANGED <<tlsVars, dgramVars>>

DeriveSecrets ==
  /\ native = "handshake" /\ ~ derived
  /\ derived' = TRUE
  /\ filled' = (pointed /\ block)
  /\ UNCHANGED <<native, listenerFile, file, block, pointed, promised, stranded, logged,
                 dgramVars>>

\* Mutants of HandleConnected: the block is dropped with the file; it is put
\* back and the file is not written.
HandleConnectedDropsBlock ==
  /\ native = "handshake" /\ derived
  /\ native' = "connected"
  /\ logged' = (logged \/ (block /\ file /\ filled))
  /\ block' = FALSE /\ filled' = FALSE
  /\ file' = FALSE
  /\ UNCHANGED <<listenerFile, pointed, derived, promised, stranded, dgramVars>>

HandleConnectedUnlogged ==
  /\ native = "handshake" /\ derived
  /\ native' = "connected"
  /\ block' = (block /\ file) /\ filled' = (filled /\ file)
  /\ file' = FALSE
  /\ UNCHANGED <<listenerFile, pointed, derived, promised, stranded, logged, dgramVars>>

\* Both are taken; only if both are there the secrets are written and the block
\* is put back.
HandleConnected ==
  /\ native = "handshake" /\ derived
  /\ native' = "connected"
  /\ logged' = (logged \/ (block /\ file /\ filled))
  /\ block' = (block /\ file) /\ filled' = (filled /\ file)
  /\ file' = FALSE
  /\ UNCHANGED <<listenerFile, pointed, derived, promised, stranded, dgramVars>>

--------------------------------------------------------------------------------
(* Datagrams *)

\* WriteBuffer::reset
Reset(b) == content' = [content EXCEPT ![b] = << >>]

\* MsQuic did not take it: no event will come, so it is taken back here.
Refused(b, p) ==
  /\ Reset(b)
  /\ pool' = pool \cup {b}
  /\ UNCHANGED <<lent, tracked, asked>>

\* send_datagram into a buffer from the pool, or a new one when it is empty.
SendDatagram(p) ==
  /\ native \in {"handshake", "connected"}
  /\ \E b \in IF pool # {} THEN pool ELSE Buffers \ lent :
       \/ /\ content' = [content EXCEPT ![b] = Append(@, p)]
          /\ pool' = pool \ {b}
          /\ lent' = lent \cup {b}
          /\ asked' = [asked EXCEPT ![b] = p]
          /\ UNCHANGED tracked
       \/ Refused(b, p)
  /\ UNCHANGED <<native, tlsVars>>

MayReport(b, s) ==
  CASE s = "Sent" -> b \in lent /\ Live
    [] s = "Canceled" -> b \in lent
    [] s \in {"Lost", "Acknowledged"} -> b \in tracked

\* What MsQuic makes of what it has: the buffer is no longer needed once it is
\* sent, the datagram is followed until it is acknowledged or given up.
Settle(b, s) ==
  /\ lent' = IF s \in {"Sent", "Canceled"} THEN lent \ {b} ELSE lent
  /\ tracked' = CASE s = "Sent" -> tracked \cup {b}
                  [] s \in {"Lost", "Canceled"} -> tracked
                  [] s = "Acknowledged" -> tracked \ {b}

\* Mutant of HandleSendState: every final state returns the buffer.
HandleSendStateTwice(b, s) ==
  /\ native \in {"handshake", "connected", "closing"}
  /\ MayReport(b, s)
  /\ Settle(b, s)
  /\ IF s \in {"Sent", "Canceled", "Acknowledged"}
     THEN Reset(b) /\ pool' = pool \cup {b}
     ELSE UNCHANGED <<content, pool>>
  /\ UNCHANGED <<native, tlsVars, asked>>

HandleSendState(b, s) ==
  /\ native \in {"handshake", "connected", "closing"}
  /\ MayReport(b, s)
  /\ Settle(b, s)
  /\ IF s \in {"Sent", "Canceled"}
     THEN Reset(b) /\ pool' = pool \cup {b}
     ELSE UNCHANGED <<content, pool>>
  /\ UNCHANGED <<native, tlsVars, asked>>

--------------------------------------------------------------------------------
(* Teardown *)

\* The last clone goes: ConnectionClose, which cancels what is not sent.
BeginClose ==
  /\ Live
  /\ native' = "closing"
  /\ UNCHANGED <<tlsVars, dgramVars>>

\* ConnectionClose returns, and with the callback goes the last ConnectionInner.
Close ==
  /\ native = "closing" /\ lent = {}
  /\ native' = "closed"
  /\ pointed' = FALSE /\ tracked' = {}
  /\ block' = FALSE /\ file' = FALSE /\ filled' = FALSE
  /\ pool' = {}
  /\ UNCHANGED <<listenerFile, derived, promised, stranded, logged, content, lent, asked>>

Next ==
  \/ \E clone, param, configure \in BOOLEAN : HandleNewConnection(clone, param, configure)
  \/ \E param \in BOOLEAN : SetKeyLogFile(param)
  \/ Start
  \/ DeriveSecrets
  \/ HandleConnected
  \/ \E p \in Payloads : SendDatagram(p)
  \/ \E b \in Buffers : \E s \in {"Sent", "Canceled", "Lost", "Acknowledged"} :
       HandleSendState(b, s)
  \/ BeginClose
  \/ Close

Spec == Init /\ [][Next]_vars

--------------------------------------------------------------------------------
(* Properties *)

TypeOK ==
  /\ native \in {"open", "offered", "refused", "handshake", "connected", "closing", "closed"}
  /\ \A f \in {listenerFile, file, block, filled, pointed, derived, promised, stranded, logged} :
       f \in BOOLEAN
  /\ pool \subseteq Buffers /\ lent \subseteq Buffers /\ tracked \subseteq Buffers
  /\ content \in [Buffers -> Seq(Payloads)]
  /\ asked \in [Buffers -> Payloads]

\* MsQuic writes to the block through a raw pointer (connection.rs:942,
\* listener.rs:237): the block lives until the connection is closed, through the
\* handshake that takes it and through every later set_sslkeylog_file.  Only a
\* connection that the listener refuses, and whose handshake never comes, is
\* left with a pointer to nothing.
SecretsOutliveMsQuic == (pointed /\ native # "refused") => block

\* A WriteBuffer is MsQuic's or the pool's, never both: what is lent holds the
\* one payload it was lent for, what is in the pool is empty, and an event on a
\* datagram that was sent before (connection.rs:1447) disturbs neither.
DatagramsOwnedOnce ==
  /\ lent \cap pool = {}
  /\ \A b \in lent : content[b] = <<asked[b]>>
  /\ \A b \in Buffers \ lent : content[b] = << >>

\* A key log file that set_sslkeylog_file or a listener accepted before the
\* secrets were derived has them when the connection is up, whatever was set
\* before or in between.  The one exception is a retry after set_param failed:
\* it finds the block stored and reports Ok without a set_param
\* (connection.rs:926).
KeysAreLogged == (native = "connected" /\ promised) => logged \/ stranded
================================================================================
