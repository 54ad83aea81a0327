--------------------------- MODULE MCClientRequest ---------------------------
EXTENDS ClientRequest

Whole == [line : {TRUE}, headers : {TRUE}, host : {TRUE}, cross : {FALSE},
          length : {0, 2}, encoded : {FALSE}, csrf : {TRUE},
          method : {"GET", "POST", "PUT"},
          target : {"page", "form", "view", "command", "unknown"}]

(* Requests with one thing wrong, or with nothing.                         *)
MCHead == Whole
          \union {[h EXCEPT !.line = FALSE] : h \in Whole}
          \union {[h EXCEPT !.headers = FALSE] : h \in Whole}
          \union {[h EXCEPT !.host = FALSE] : h \in Whole}
          \union {[h EXCEPT !.cross = TRUE] : h \in Whole}
          \union {[h EXCEPT !.length = -1] : h \in Whole}
          \union {[h EXCEPT !.length = MaxBody + 1] : h \in Whole}
          \union {[h EXCEPT !.encoded = TRUE] : h \in Whole}
          \union {[h EXCEPT !.csrf = FALSE] : h \in Whole}
=============================================================================
