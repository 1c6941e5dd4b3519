------------------------------ MODULE MCBroker -------------------------------
EXTENDS Broker

\* One consumer group for the orders ...
OneGroup == {<<"order.*", g>> : g \in Groups}

\* ... and for the dead letters too, as the dashboard asks for them.
OrdersAndDead == {"order.*", "$DLQ.*"} \X Groups
==============================================================================
