--------------------------- MODULE MCServerShutdown ---------------------------
\* Model-checking instance of ServerShutdown: connections are model values.
EXTENDS ServerShutdown, TLC

\* A context that is never done (context.Background()).
Never == -1

=============================================================================
