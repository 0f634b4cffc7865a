--------------------------- MODULE HeaderGasLimit ---------------------------
(***************************************************************************)
(* Header gas limit verification (consensus/misc/gaslimit.go). A chain of *)
(* headers grows one header at a time; a header is accepted when          *)
(* VerifyGaslimit(parent.GasLimit, header.GasLimit) returns no error.     *)
(***************************************************************************)
EXTENDS Integers, Sequences

CONSTANTS
    MinGasLimit,        \* params.MinGasLimit
    MaxGasLimit,        \* params.MaxGasLimit
    GenesisGasLimit,    \* the gas limit of the first header
    GasLimits,          \* gas limits a proposer may put in a header
    BoundDivisor,       \* the parent-relative bound the doc comment refers to
    MaxHeaders          \* length of the chains explored

ASSUME GenesisGasLimit \in MinGasLimit..MaxGasLimit

VARIABLE chain  \* gas limits of the accepted headers, oldest first

\* VerifyGaslimit: the error, or "ok".
VerifyGaslimit(parentGasLimit, headerGasLimit) ==
    CASE headerGasLimit > MaxGasLimit -> "beyondMax"
      [] headerGasLimit < MinGasLimit -> "belowMin"
      [] OTHER                        -> "ok"

Init == chain = <<GenesisGasLimit>>

\* A header with gas limit g on top of the last accepted one.
ImportHeader(g) ==
    /\ Len(chain) < MaxHeaders
    /\ VerifyGaslimit(chain[Len(chain)], g) = "ok"
    /\ chain' = Append(chain, g)

Next == \E g \in GasLimits : ImportHeader(g)

Spec == Init /\ [][Next]_chain

-----------------------------------------------------------------------------
(* Properties *)

\* The doc comment of VerifyGaslimit: it "verifies the header gas limit
\* according increase/decrease in relation to the parent gas limit", that
\* is, an accepted header's gas limit differs from its parent's by less
\* than parent / BoundDivisor. The body never reads parentGasLimit.
GasLimitFollowsParent ==
    \A k \in 1..(Len(chain) - 1) :
        LET diff == IF chain[k + 1] >= chain[k] THEN chain[k + 1] - chain[k]
                                               ELSE chain[k] - chain[k + 1]
        IN  diff < chain[k] \div BoundDivisor

=============================================================================
