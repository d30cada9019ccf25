------------------------------- MODULE MCBubble -------------------------------
\* Three universes: with two, the first death clears the bubble.
EXTENDS Bubble
=============================================================================
