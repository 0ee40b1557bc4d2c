---------------------------- MODULE MCImageCache ----------------------------
EXTENDS ImageCache

\* One manifest has all layers, every other one has one less.
MCLayersOf ==
    LET large == CHOOSE d \in Digests : TRUE
    IN  [d \in Digests |-> IF d = large THEN NLayers ELSE NLayers - 1]
=============================================================================
