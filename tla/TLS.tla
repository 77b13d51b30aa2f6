---------------------------------- MODULE TLS ----------------------------------
(***************************************************************************)
(* TLS.cpp: the session object of a peer, and the connection it is bound   *)
(* to.  The object outlives the connection: it is created once, with the   *)
(* peer, and bound to every new descriptor in turn.  The socket does not   *)
(* block, so that a handshake takes several calls; SSL_connect, SSL_read   *)
(* and SSL_write all go on with it.                                        *)
(*                                                                         *)
(* What OpenSSL, the kernel and the server do is external, and kept to     *)
(* what the class tells apart: success, try again (SSL_ERROR_WANT_READ and *)
(* WANT_WRITE), end of the session (ZERO_RETURN), any other error.         *)
(***************************************************************************)
EXTENDS Integers

VARIABLES ctx,     \* ssl_ctx: "null" or "set"
          ssl,     \* ssl: "null", or how far the session is; "ended" when the
                   \* server's close_notify was read, "broken" by an error
          mine,    \* the session was begun on the connection open now
          link,    \* the descriptor: not open ("none"), connected ("up"), ended
                   \* by the server ("fin"), reset and not yet reported ("rst")
          unread,  \* what waits in the receive buffer: "nothing", the server's
                   \* part of the handshake ("flight"), data ("record"), the end
                   \* of the session ("notify"), while TCP may stay open
          watched, \* the descriptor is in the epoll interest list
          armed    \* epoll has an edge it has not reported

sessionVars == <<ctx, ssl, mine>>
connVars == <<link, unread, watched, armed>>

Session == {"null", "fresh", "shaking", "ready", "ended", "broken"}
Unread  == {"nothing", "flight", "record", "notify"}
Result  == {"ok", "want", "zero", "error"}

\* What a call of OpenSSL may leave behind.
Outcome == [res : Result, ssl : Session, unread : Unread]

TLSInit ==
    /\ ctx = "null" /\ ssl = "null" /\ mine = FALSE
    /\ link = "none" /\ unread = "nothing" /\ watched = FALSE /\ armed = FALSE

-----------------------------------------------------------------------------
(* The calls of OpenSSL: o is a possible outcome. *)

\* A call that finds the handshake unfinished goes on with it.  The client
\* speaks first; a flight of the server may be the last one, or not, or be
\* refused (its certificate, its version), or be an alert: a fatal one is an
\* error, a close_notify ends the session.
Handshake(o) ==
    \/ /\ ssl = "fresh"
       /\ IF link = "up" THEN o.res = "want"  /\ o.ssl = "shaking"
                         ELSE o.res = "error" /\ o.ssl \in {"fresh", "broken"}
       /\ o.unread = unread
    \/ /\ ssl = "shaking" /\ unread = "nothing"
       /\ IF link = "up" THEN o.res = "want"  /\ o.ssl = "shaking"
                         ELSE o.res = "error" /\ o.ssl \in {"shaking", "broken"}
       /\ o.unread = "nothing"
    \/ /\ ssl = "shaking" /\ unread # "nothing"
       /\ \/ o.res = "ok"    /\ o.ssl = "ready"
          \/ o.res = "want"  /\ o.ssl = "shaking" /\ link = "up"
          \/ o.res = "error" /\ o.ssl = "broken"
          \/ o.res = "zero"  /\ o.ssl = "ended"
       /\ o.unread = "nothing"
    \/ ssl = "broken" /\ o.res = "error" /\ o.ssl = ssl /\ o.unread = unread

\* What a call says that has taken everything and looks for more.
Exhausted == IF link = "up" THEN "want" ELSE "error"

\* A session that is ready is not begun again, whatever it is bound to, nor is
\* one that has ended; where it ended in the handshake, the rest is awaited.
SSLConnect(o) ==
    \/ ssl \in {"fresh", "shaking", "broken"} /\ Handshake(o)
    \/ /\ ssl \in {"ready", "ended"}
       /\ o.res = "ok" \/ (o.res = Exhausted /\ ssl = "ended")
       /\ o.ssl = ssl /\ o.unread = unread

\* A finished handshake is no data, and a record need not hold any (a ticket);
\* it may be a fatal alert, or not be authentic.  An end of the connection that
\* the server did not announce is an error, with some versions a final one.  The
\* end it did announce is reported by every call from then on.
SSLRead(o) ==
    \/ /\ ssl \in {"fresh", "shaking", "broken"} /\ o.res # "ok"
       /\ \/ Handshake(o)
          \/ o.res = Exhausted /\ Handshake([o EXCEPT !.res = "ok"])
    \/ /\ ssl = "ready" /\ unread # "notify" /\ o.unread = "nothing"
       /\ \/ o.res = "ok"      /\ o.ssl = ssl      /\ unread # "nothing"
          \/ o.res = "error"   /\ o.ssl = "broken" /\ unread # "nothing"
          \/ o.res = Exhausted /\ o.ssl = ssl
          \/ o.res = "error"   /\ o.ssl = "broken" /\ link # "up"
    \/ /\ ssl = "ready" /\ unread = "notify"
       /\ o = [res |-> "zero", ssl |-> "ended", unread |-> "nothing"]
    \/ ssl = "ended" /\ o = [res |-> "zero", ssl |-> ssl, unread |-> unread]

\* Whether the message went out makes no difference to the caller.
SSLWrite(o) ==
    \/ ssl \in {"fresh", "shaking", "broken"} /\ Handshake(o)
    \/ ssl \in {"ready", "ended"} /\ o.ssl = ssl /\ o.unread = unread

\* The session takes the outcome; one that greets the server belongs to the
\* connection.
Becomes(o) ==
    /\ ssl' = o.ssl /\ unread' = o.unread
    /\ mine' = (mine \/ (ssl = "fresh" /\ o.ssl = "shaking"))
    /\ ctx' = ctx

-----------------------------------------------------------------------------
(* The class. *)

HandleIoFailure(res) == IF res = "want" THEN 1 ELSE IF res = "zero" THEN 0 ELSE -1

\* Faulty: the context is not forgotten.
KeepContext == ssl' = "null" /\ mine' = FALSE /\ ctx' = ctx

\* The session and its context are freed and forgotten.
KeepClear == ssl' = "null" /\ mine' = FALSE /\ ctx' = "null"

\* Trusting the certificates, or setting the version, may fail; each failure
\* frees the context, and the calls after it go on without one.
ConfigureContext == KeepClear \/ UNCHANGED sessionVars

\* SSL_new may fail, and does without a context.
CreateObject ==
    \/ ctx = "set" /\ ssl' = "fresh" /\ UNCHANGED <<ctx, mine>>
    \/ KeepClear

\* connect: a handshake that has to be tried again counts as successful; any
\* failure frees the session.  When SSL_set_fd fails (no memory) the session is
\* freed at once and SSL_connect is called with a null pointer.
TLSConnect(ok) ==
    \/ \E o \in Outcome :
         /\ SSLConnect(o)
         /\ ok = (o.res = "ok" \/ HandleIoFailure(o.res) > 0)
         /\ IF ok THEN Becomes(o)
                  ELSE KeepClear /\ unread' = o.unread
    \/ ~ok /\ KeepClear /\ unread' = unread

-----------------------------------------------------------------------------
(* The connection. *)

Readable == unread # "nothing" \/ link \in {"fin", "rst"}

\* The server answers a client that greeted it on this connection, and sends
\* data to one whose handshake is done, or the end of the session; an answer may
\* be the last one.
Deliver ==
    /\ link = "up" /\ unread = "nothing"
    /\ \/ ssl = "shaking" /\ mine /\ unread' = "flight"
       \/ ssl = "ready" /\ mine /\ unread' \in {"record", "notify"}
       \/ ssl = "null" /\ unread' = "record"
    /\ armed' = watched
    /\ UNCHANGED <<sessionVars, link, watched>>

ServerEnds ==
    /\ link = "up" /\ link' \in {"fin", "rst"}
    /\ armed' = watched
    /\ UNCHANGED <<sessionVars, unread, watched>>

TLSTypeOK ==
    /\ ctx \in {"null", "set"}
    /\ ssl \in Session
    /\ mine \in BOOLEAN
    /\ link \in {"none", "up", "fin", "rst"}
    /\ unread \in Unread
    /\ watched \in BOOLEAN
    /\ armed \in BOOLEAN
=============================================================================
