\* Every method and every class of properties; a buffer or a payload may end
\* anywhere within 6 octets of the start or of the end.
SPECIFICATION Spec
CONSTANTS
  Near = 6
  Structs <- MCStructs
INVARIANTS
  RoundTrip
  CutIsRejected
  EncodesWhatFits
\* A behaviour ends when its struct is decoded, or refused or rejected.
CHECK_DEADLOCK FALSE
