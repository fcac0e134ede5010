\* As MCInventoryLock.
CONSTANTS
  INV_MAX_DEVICES = 3
  MAX_EVENTS = 2
SPECIFICATION Spec
PROPERTY PressIsIgnored
