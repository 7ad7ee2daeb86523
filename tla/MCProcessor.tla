---------------------------- MODULE MCProcessor ----------------------------
EXTENDS Processor

\* Two chains, u and v, and w, which is never created.
New(uid) == [kind |-> "schedule", uid |-> uid, chain |-> "none", peer |-> "none",
                   creatable |-> TRUE]
Unknown(uid) == [New(uid) EXCEPT !.creatable = FALSE]
On(kind, uid, chain, peer) == [kind |-> kind, uid |-> uid, chain |-> chain, peer |-> peer,
                               creatable |-> FALSE]

\* Two chains that exchange and are interrupted; a chain scheduled twice, and again
\* after requests; requests that race with the end of their chain; refusals.
Scripts == {
  <<New("u"), New("v"), On("exchange", "e", "u", "v"), On("metrics", "m", "v", "none")>>,
  <<New("u"), On("metrics", "m", "u", "none"), New("u"), On("interrupt", "i", "u", "none")>>,
  <<New("u"), On("interrupt", "i", "u", "none"), On("metrics", "m", "u", "none"),
    On("interrupt", "j", "u", "none")>>,
  <<On("corrupted", "c", "none", "none"), Unknown("u"), On("exchange", "e", "u", "w"),
    On("interrupt", "i", "w", "none")>> }
=============================================================================
