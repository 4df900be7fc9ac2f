------------------------------ MODULE MCTransport ------------------------------
(* What lies between a client and its WebSocket server: the dial (Dial), and  *)
(* the splitter that cuts the client's stream into frames (MsgSplitter).      *)
(* Each initial state begins one of them; the other one stays as it is.       *)
EXTENDS Dial, TLC

CONSTANTS Bytes, Base, Long, Word, MaxLen, Sizes

VARIABLES proto, got, cipher, plain, disabled, cut, sent

splitVars == <<proto, got, cipher, plain, disabled, cut, sent>>
Split == INSTANCE MsgSplitter WITH pc <- cut

ASSUME SplitAssumption == Split!ByteAssumption

\* 0 and 4 announce nothing, 4 and 7 carry the flag, 7 is the long mark.
MCBytes == {0, 1, 4, 7}

Idle ==
    /\ kind = [d \in Dials |-> "cf"] /\ pc = [d \in Dials |-> "done"]
    /\ byAddress = {} /\ cache = 0
    /\ left = [d \in Dials |-> 0]
    /\ result = [d \in Dials |-> "none"]
    /\ task = [d \in Dials |-> [r \in Resolvers |-> "none"]]
    /\ taskLeft = [d \in Dials |-> 0]
    /\ mail = [d \in Dials |-> <<>>]
    /\ spent = [d \in Dials |-> 0]

Closed ==
    /\ proto = "abridged" /\ disabled = FALSE /\ cut = "closed"
    /\ got = <<>> /\ cipher = <<>> /\ plain = <<>> /\ sent = <<>>

\* At least one of the dials resolves.
DialInit == Init /\ \E d \in Dials : kind[d] = "cf"

TInit == (DialInit /\ Closed) \/ (Split!Init /\ Idle)
TNext == (Next /\ UNCHANGED splitVars) \/ (Split!Next /\ UNCHANGED vars)

TSpec == TInit /\ [][TNext]_<<vars, splitVars>>

Symmetry == Permutations(Dials) \cup Permutations(Resolvers)

-----------------------------------------------------------------------------
(* Properties *)

\* The server gets every byte of the client, once and in order.
NothingLost == Split!NothingLost

\* Every frame holds exactly one packet of the client's transport, however TCP
\* cuts the stream, and no whole packet is held back.
OnePacketEach == Split!OnePacketEach

=============================================================================
