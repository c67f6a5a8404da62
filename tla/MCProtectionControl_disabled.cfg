\* The same requests without MQTT_BROKER.
SPECIFICATION DisabledSpec
CONSTANTS
  Command = {c1, c2}
  NONE = NONE
INVARIANTS
  DisabledPublisherIsHarmless
CHECK_DEADLOCK FALSE
