CONSTANTS
  Plugins <- MCPlugins
  PluginIds = {a, b}
  IdOf <- MCIdOf
  Engines = {e1, e2}
  Directories <- MCDirectories
  None = none
  old = old
  new = new
  other = other
  a = a
  b = b
SPECIFICATION Spec
INVARIANTS
  TypeOK
  LifecycleTellsPlugin
  SweepIsComplete
PROPERTY CallsAreOrderly
