------------------------------- MODULE NoValue -------------------------------
\* What a variable holds while it holds nothing: null, undefined, no key.
CONSTANT None
=============================================================================
